---------------------------- MODULE Spec2Model ----------------------------
(***************************************************************************)
(* Model of the generate-insights edge function                            *)
(* (supabase/functions/generate-insights/index.ts): the request handler    *)
(* and the pure rule cascade analyzeHealthPatterns; of the aura-chat edge  *)
(* function and its rule-based responder generateFreeAIResponse; and of    *)
(* the client: useDeviceConnection with the DeviceConnectionCard,          *)
(* useBluetoothDevices, ChatInterface, ContextLogger and useHealthData.    *)
(*                                                                         *)
(* Specifications.  Spec: one generate-insights request.  SpecRuns:        *)
(* requests one after the other on the same stored data.  SpecAnalyze and  *)
(* SpecTags: analyzeHealthPatterns called on its own.  SpecChat:           *)
(* generateFreeAIResponse called on a message and a health summary.        *)
(* SpecChatHandler: one aura-chat request.  SpecDevices: overlapping calls *)
(* of the device hook.  SpecScan: Bluetooth scans.  SpecChatUI: the chat   *)
(* window with its history load and sends.  SpecLogger: the context        *)
(* logger.  SpecHealthData: overlapping fetches of the latest metrics.     *)
(*                                                                         *)
(* Client state.  A call of an async function is a record holding its      *)
(* position and the state values of the render that created it; a step of  *)
(* a call runs from one await to the next.                                 *)
(*                                                                         *)
(* Numbers.  Sample values are integers; a mean is the exact rational      *)
(* <<sum, count>> and thresholds are compared by cross-multiplication      *)
(* (1.1 = 11/10, 0.85 = 17/20, ...).  On the value sets used below and for *)
(* groups of at most five samples this agrees with the IEEE-754 doubles    *)
(* the code computes with; rounding of larger groups is outside the model. *)
(*                                                                         *)
(* Time.  A timestamp is a number of hours; the calendar date of a         *)
(* timestamp (the part of the ISO string before 'T') is DateOf.            *)
(*                                                                         *)
(* Text.  An insight's description is a fixed template per title; only the *)
(* numbers interpolated into it are modelled (the tuple `description').    *)
(* A chat message is a string; a chat reply is the rule and the variant of *)
(* the rule's text that was returned, with the numbers interpolated.       *)
(***************************************************************************)
EXTENDS Integers, Sequences, FiniteSets, TLC

VARIABLES
    health_metrics,     \* table health_metrics
    quick_actions_log,  \* table quick_actions_log
    health_events,      \* table health_events
    pc,                 \* position of the handler / of the direct call
    userId,             \* userId of the request body
    healthMetrics,      \* data of the health_metrics query (or Null)
    contextLogs,        \* data of the quick_actions_log query (or Null)
    insights,           \* result of analyzeHealthPatterns
    insightEvents,      \* rows built from the insights
    response,           \* the HTTP response
    analyzerCalls,      \* number of calls of analyzeHealthPatterns
    inserts,            \* batches submitted to health_events.insert
    readErrors,         \* which storage reads of the request returned an error
    insertError,        \* whether the insert returned an error
    message,            \* aura-chat: message of the request body
    healthSummary,      \* aura-chat: summary of the user's recent health data
    aiResponse,         \* aura-chat: result of generateFreeAIResponse
    chatUserId,         \* aura-chat: userId of the request body
    chatMetrics,        \* aura-chat: data of the health_metrics query (or Null)
    ai_conversations,   \* table ai_conversations
    conversationData,   \* aura-chat: batches submitted to ai_conversations.insert
    chatResponse,       \* aura-chat: the HTTP response
    dbError,            \* aura-chat: whether the insert returned an error
    device_connections, \* table device_connections
    devices,            \* useDeviceConnection: state devices of the latest render
    deviceError,        \* useDeviceConnection: state error
    bluetooth,          \* useDeviceConnection: useBluetoothDevices() of the latest render
    deviceCalls,        \* the calls of the hook's functions, finished and in flight
    syncInserts,        \* the batches syncHealthData inserted into health_metrics
    messages,           \* ChatInterface: state messages
    inputValue,         \* ChatInterface: state inputValue
    isTyping,           \* ChatInterface: state isTyping
    isLoading,          \* ChatInterface: state isLoading
    historyLoad,        \* ChatInterface: the loadConversationHistory call
    sends,              \* ChatInterface: the handleSendMessage calls
    selectedTags,       \* ContextLogger: state selectedTags
    loggerOpen,         \* ContextLogger: prop isOpen, held by the parent
    saves,              \* ContextLogger: the handleSave calls
    loggerInserts,      \* ContextLogger: the rows inserted into quick_actions_log
    healthData,         \* useHealthData: state healthData
    fetches             \* useHealthData: the fetchLatestHealthData calls

insightLocals == <<quick_actions_log, health_events, userId, healthMetrics,
                   contextLogs, insights, insightEvents, response, analyzerCalls,
                   inserts, readErrors, insertError>>

insightVars == <<health_metrics, insightLocals>>

chatLocals == <<message, healthSummary, aiResponse, chatUserId, chatMetrics,
               conversationData, chatResponse, dbError>>

chatVars == <<chatLocals, ai_conversations>>

chatUIVars == <<messages, inputValue, isTyping, isLoading, historyLoad, sends>>

deviceVars == <<device_connections, devices, deviceError, bluetooth, deviceCalls,
               syncInserts>>

loggerVars == <<selectedTags, loggerOpen, saves, loggerInserts>>

healthDataVars == <<healthData, fetches>>

nonInsightVars == <<chatVars, deviceVars, chatUIVars, loggerVars, healthDataVars>>

nonChatVars == <<insightVars, deviceVars, chatUIVars, loggerVars, healthDataVars>>

nonDeviceVars == <<pc, insightVars, chatVars, chatUIVars, loggerVars, healthDataVars>>

nonChatUIVars == <<pc, insightVars, chatLocals, deviceVars, loggerVars,
                   healthDataVars>>

nonLoggerVars == <<pc, insightVars, chatVars, deviceVars, chatUIVars, healthDataVars>>

nonHealthDataVars == <<pc, insightLocals, chatVars, deviceVars, chatUIVars,
                       loggerVars>>

vars == <<pc, insightVars, chatVars, deviceVars, chatUIVars, loggerVars,
          healthDataVars>>

-----------------------------------------------------------------------------
(* Bounds of the model *)

MaxGroup == 4
MaxLogs == 1
\* tag-correlation inputs: samples per group and context logs per request
MaxTagGroup == 3
MaxTagLogs == 2
\* analyses served one after the other on the same stored data
MaxRuns == 2
\* words in a chat message
MaxWords == 2
MaxCalls == 2
MaxSends == 2
MaxNames == 2
MaxSaves == 2
MaxFetches == 3

(* Program constants *)

MinMetrics == 5
MinGroup == 3
WindowDays == 14
HoursPerDay == 24
ShortSleep == 7
ChatWindowDays == 7
MetricsLimit == 20
ContextLimit == 10
HistoryLimit == 20

\* A value that JavaScript may leave null: Null, or Array(rows)
Null == <<>>
Array(rows) == <<rows>>
RowsOf(a) == a[1]

\* What a read of a property of null throws
TypeError == <<[title |-> "TypeError", description |-> <<>>, severity |-> "thrown"]>>

NoUserId == ""

Users == {"u1", "u2"}

-----------------------------------------------------------------------------
(* Arithmetic on exact rationals <<numerator, denominator>>, denominator > 0 *)

RECURSIVE Sum(_)
Sum(s) == IF s = <<>> THEN 0 ELSE Head(s) + Sum(Tail(s))

Values(group) == [i \in 1..Len(group) |-> group[i].value]

\* group.reduce((sum, m) => sum + m.value, 0) / group.length
Mean(group) == <<Sum(Values(group)), Len(group)>>

\* group.slice(-3)
LastThree(group) ==
    SubSeq(group, IF Len(group) > 3 THEN Len(group) - 2 ELSE 1, Len(group))

\* group.slice(-3).reduce((sum, m) => sum + m.value, 0) / 3
RecentMean(group) == <<Sum(Values(LastThree(group))), 3>>

RLess(a, b) == a[1] * b[2] < b[1] * a[2]
RScale(a, num, den) == <<a[1] * num, a[2] * den>>
RSub(a, b) == <<a[1] * b[2] - b[1] * a[2], a[2] * b[2]>>
RDiv(a, b) == <<a[1] * b[2], a[2] * b[1]>>

\* Math.round: the nearest integer, a half rounded up
Round(a) == (2 * a[1] + a[2]) \div (2 * a[2])

\* avg.toFixed(1), as a number of tenths
ToFixed1(a) == Round(RScale(a, 10, 1))


\* Math.round(((a - b) / base) * 100)
Percent(a, b, base) == Round(RScale(RDiv(RSub(a, b), base), 100, 1))

\* created_at.split('T')[0], and the date prefix recorded_at.startsWith tests
DateOf(ts) == ts \div HoursPerDay

Insight(t, d, s) == [title |-> t, description |-> d, severity |-> s]

-----------------------------------------------------------------------------
(* analyzeHealthPatterns *)

\* metricsByType[t]; the empty sequence stands for an absent key
MetricsByType(metrics, t) == SelectSeq(metrics, LAMBDA m : m.metric_type = t)

\* (variant: the size guard forgotten, only the key tested)
GroupPresent(group) == Len(group) > 0

\* metricsByType.x && metricsByType.x.length > 3
\* (variant: length >= 3)
GroupAtLeastThree(group) == Len(group) >= MinGroup

GroupLargeEnough(group) == Len(group) > MinGroup

\* (variant: thresholds inclusive)
HeartRateRuleInclusive(hrData) ==
    IF GroupLargeEnough(hrData)
    THEN LET avgHR == Mean(hrData)
             recentHR == RecentMean(hrData)
         IN  IF ~RLess(recentHR, RScale(avgHR, 11, 10))
             THEN <<Insight("Elevated Heart Rate Pattern",
                            <<Percent(recentHR, avgHR, avgHR)>>, "warning")>>
             ELSE IF ~RLess(RScale(avgHR, 9, 10), recentHR)
             THEN <<Insight("Improved Heart Rate Recovery",
                            <<Percent(avgHR, recentHR, avgHR)>>, "info")>>
             ELSE <<>>
    ELSE <<>>

HeartRateRule(hrData) ==
    IF GroupLargeEnough(hrData)
    THEN LET avgHR == Mean(hrData)
             recentHR == RecentMean(hrData)
         IN  IF RLess(RScale(avgHR, 11, 10), recentHR)
             THEN <<Insight("Elevated Heart Rate Pattern",
                            <<Percent(recentHR, avgHR, avgHR)>>, "warning")>>
             ELSE IF RLess(recentHR, RScale(avgHR, 9, 10))
             THEN <<Insight("Improved Heart Rate Recovery",
                            <<Percent(avgHR, recentHR, avgHR)>>, "info")>>
             ELSE <<>>
    ELSE <<>>

\* (variant: the heart-rate thresholds 0.9 and 1.1 copied into the HRV rule)
HrvRuleHeartRateThresholds(hrvData) ==
    IF GroupLargeEnough(hrvData)
    THEN LET avgHRV == Mean(hrvData)
             recentHRV == RecentMean(hrvData)
         IN  IF RLess(recentHRV, RScale(avgHRV, 9, 10))
             THEN <<Insight("HRV Indicates Increased Stress",
                            <<Percent(avgHRV, recentHRV, avgHRV)>>, "attention")>>
             ELSE IF RLess(RScale(avgHRV, 11, 10), recentHRV)
             THEN <<Insight("Excellent HRV Recovery",
                            <<Percent(recentHRV, avgHRV, avgHRV)>>, "info")>>
             ELSE <<>>
    ELSE <<>>

HrvRule(hrvData) ==
    IF GroupLargeEnough(hrvData)
    THEN LET avgHRV == Mean(hrvData)
             recentHRV == RecentMean(hrvData)
         IN  IF RLess(recentHRV, RScale(avgHRV, 85, 100))
             THEN <<Insight("HRV Indicates Increased Stress",
                            <<Percent(avgHRV, recentHRV, avgHRV)>>, "attention")>>
             ELSE IF RLess(RScale(avgHRV, 115, 100), recentHRV)
             THEN <<Insight("Excellent HRV Recovery",
                            <<Percent(recentHRV, avgHRV, avgHRV)>>, "info")>>
             ELSE <<>>
    ELSE <<>>

\* (variant: exactly half of the nights short already counts as a deficit)
SleepRuleHalfCounts(sleepData) ==
    IF GroupLargeEnough(sleepData)
    THEN LET avgSleep == Mean(sleepData)
             shortSleepDays ==
                 Len(SelectSeq(sleepData, LAMBDA m : m.value < ShortSleep))
         IN  IF 2 * shortSleepDays >= Len(sleepData)
             THEN <<Insight("Consistent Sleep Deficit",
                            <<shortSleepDays, Len(sleepData)>>, "attention")>>
             ELSE IF ~RLess(avgSleep, <<15, 2>>)
             THEN <<Insight("Optimal Sleep Pattern",
                            <<ToFixed1(avgSleep)>>, "info")>>
             ELSE <<>>
    ELSE <<>>

SleepRule(sleepData) ==
    IF GroupLargeEnough(sleepData)
    THEN LET avgSleep == Mean(sleepData)
             shortSleepDays ==
                 Len(SelectSeq(sleepData, LAMBDA m : m.value < ShortSleep))
         IN  IF 2 * shortSleepDays > Len(sleepData)
             THEN <<Insight("Consistent Sleep Deficit",
                            <<shortSleepDays, Len(sleepData)>>, "attention")>>
             ELSE IF ~RLess(avgSleep, <<15, 2>>)
             THEN <<Insight("Optimal Sleep Pattern",
                            <<ToFixed1(avgSleep)>>, "info")>>
             ELSE <<>>
    ELSE <<>>

\* contextLogs.filter(log => tags.includes(..)).map(log => date of created_at)
TaggedDays(logs, tags) ==
    LET hit == SelectSeq(logs, LAMBDA log : log.data.tags \cap tags # {})
    IN  [i \in 1..Len(hit) |-> DateOf(hit[i].created_at)]

InDays(days, d) == \E i \in 1..Len(days) : days[i] = d

\* hrv samples whose recorded_at starts with the date of a log tagged 'stressed'
StressedDayHRV(hrv, logs) ==
    LET stressedDays == TaggedDays(logs, {"stressed"})
    IN  SelectSeq(hrv, LAMBDA m : InDays(stressedDays, DateOf(m.recorded_at)))

\* (variant: the stress rule without if (stressedDayHRV.length > 0))
StressPrerequisiteNoSubsetCheck(hrv, logs) ==
    Len(TaggedDays(logs, {"stressed"})) > 0 /\ Len(hrv) > 0

\* if (stressedDays.length > 0 && metricsByType.hrv) and, inside it,
\* if (stressedDayHRV.length > 0): only then are the two means computed
StressPrerequisite(hrv, logs) ==
    /\ Len(TaggedDays(logs, {"stressed"})) > 0
    /\ Len(hrv) > 0
    /\ Len(StressedDayHRV(hrv, logs)) > 0

\* (variant: the stress rule also asking for more than 3 hrv samples)
StressRuleLargeGroupOnly(hrv, logs) ==
    IF StressPrerequisite(hrv, logs) /\ GroupLargeEnough(hrv)
    THEN LET avgStressedHRV == Mean(StressedDayHRV(hrv, logs))
             allHRVAvg == Mean(hrv)
         IN  IF RLess(avgStressedHRV, RScale(allHRVAvg, 9, 10))
             THEN <<Insight("Stress Impact on Recovery",
                            <<Percent(allHRVAvg, avgStressedHRV, allHRVAvg)>>,
                            "warning")>>
             ELSE <<>>
    ELSE <<>>

StressRule(hrv, logs) ==
    IF StressPrerequisite(hrv, logs)
    THEN LET avgStressedHRV == Mean(StressedDayHRV(hrv, logs))
             allHRVAvg == Mean(hrv)
         IN  IF RLess(avgStressedHRV, RScale(allHRVAvg, 9, 10))
             THEN <<Insight("Stress Impact on Recovery",
                            <<Percent(allHRVAvg, avgStressedHRV, allHRVAvg)>>,
                            "warning")>>
             ELSE <<>>
    ELSE <<>>

\* (variant: sleep samples of the workout day itself taken as post-workout)
PostWorkoutSleepSameDay(sleep, logs) ==
    LET workoutDays == TaggedDays(logs, {"workout", "cardio"})
    IN  SelectSeq(sleep, LAMBDA m : InDays(workoutDays, DateOf(m.recorded_at)))

\* sleep samples for which the date of recorded_at minus 24 hours is the date
\* of a log tagged 'workout' or 'cardio'
PostWorkoutSleep(sleep, logs) ==
    LET workoutDays == TaggedDays(logs, {"workout", "cardio"})
    IN  SelectSeq(sleep, LAMBDA m :
            InDays(workoutDays, DateOf(m.recorded_at - HoursPerDay)))

\* if (workoutDays.length > 0 && metricsByType.sleep_duration) and, inside it,
\* if (postWorkoutSleep.length > 0)
WorkoutPrerequisite(sleep, logs) ==
    /\ Len(TaggedDays(logs, {"workout", "cardio"})) > 0
    /\ Len(sleep) > 0
    /\ Len(PostWorkoutSleep(sleep, logs)) > 0

\* (variant: the workout rule reading the sleep samples of the workout day)
WorkoutRuleSameDay(sleep, logs) ==
    LET postWorkoutSleep == PostWorkoutSleepSameDay(sleep, logs)
    IN  IF Len(TaggedDays(logs, {"workout", "cardio"})) > 0
           /\ Len(sleep) > 0 /\ Len(postWorkoutSleep) > 0
        THEN LET avgPostWorkoutSleep == Mean(postWorkoutSleep)
                 allSleepAvg == Mean(sleep)
             IN  IF RLess(allSleepAvg, avgPostWorkoutSleep)
                 THEN <<Insight("Exercise Improves Sleep Quality",
                                <<Round(RScale(RSub(avgPostWorkoutSleep, allSleepAvg),
                                               60, 1))>>,
                                "info")>>
                 ELSE <<>>
        ELSE <<>>

WorkoutRule(sleep, logs) ==
    IF WorkoutPrerequisite(sleep, logs)
    THEN LET avgPostWorkoutSleep == Mean(PostWorkoutSleep(sleep, logs))
             allSleepAvg == Mean(sleep)
         IN  IF RLess(allSleepAvg, avgPostWorkoutSleep)
             THEN <<Insight("Exercise Improves Sleep Quality",
                            <<Round(RScale(RSub(avgPostWorkoutSleep, allSleepAvg),
                                           60, 1))>>,
                            "info")>>
             ELSE <<>>
    ELSE <<>>

\* One entry per mean the analyzer computes, in source order: the rule that
\* computes it, the metric type, the part of the group it is taken over and
\* the number of samples in that part
Averaged(rule, type, part, samples) ==
    [rule |-> rule, type |-> type, part |-> part, size |-> Len(samples)]

\* avg = group.reduce(..) / group.length, recent = group.slice(-3).reduce(..) / 3
RecentMeans(type, group) ==
    IF GroupLargeEnough(group)
    THEN <<Averaged(type, type, "group", group),
           Averaged(type, type, "last3", LastThree(group))>>
    ELSE <<>>

\* the sleep rule computes avgSleep only
SleepMeans(group) ==
    IF GroupLargeEnough(group)
    THEN <<Averaged("sleep_duration", "sleep_duration", "group", group)>>
    ELSE <<>>

StressMeans(hrv, logs) ==
    IF StressPrerequisite(hrv, logs)
    THEN <<Averaged("stress", "hrv", "subset", StressedDayHRV(hrv, logs)),
           Averaged("stress", "hrv", "group", hrv)>>
    ELSE <<>>

WorkoutMeans(sleep, logs) ==
    IF WorkoutPrerequisite(sleep, logs)
    THEN <<Averaged("workout", "sleep_duration", "subset",
                    PostWorkoutSleep(sleep, logs)),
           Averaged("workout", "sleep_duration", "group", sleep)>>
    ELSE <<>>

MeansComputed(metrics, logs) ==
    LET hr == MetricsByType(metrics, "heart_rate")
        hrv == MetricsByType(metrics, "hrv")
        sleep == MetricsByType(metrics, "sleep_duration")
    IN  RecentMeans("heart_rate", hr) \o RecentMeans("hrv", hrv)
        \o SleepMeans(sleep)
        \o (IF logs # Null /\ Len(RowsOf(logs)) > 0
            THEN StressMeans(hrv, RowsOf(logs)) \o WorkoutMeans(sleep, RowsOf(logs))
            ELSE <<>>)

\* (variant: if (contextLogs.length > 0), which throws when contextLogs is null)
ContextRulesNoNullCheck(hrv, sleep, logs) ==
    IF logs = Null
    THEN TypeError
    ELSE IF Len(RowsOf(logs)) > 0
         THEN StressRule(hrv, RowsOf(logs)) \o WorkoutRule(sleep, RowsOf(logs))
         ELSE <<>>

\* if (contextLogs && contextLogs.length > 0) { ... }: reading .length of null
\* would throw, which the first conjunct prevents
ContextRules(hrv, sleep, logs) ==
    IF logs = Null
    THEN <<>>
    ELSE IF Len(RowsOf(logs)) > 0
         THEN StressRule(hrv, RowsOf(logs)) \o WorkoutRule(sleep, RowsOf(logs))
         ELSE <<>>

\* (variant: the tag correlations evaluated before the per-type rules)
analyzeContextFirst(metrics, logs) ==
    LET hr == MetricsByType(metrics, "heart_rate")
        hrv == MetricsByType(metrics, "hrv")
        sleep == MetricsByType(metrics, "sleep_duration")
        context == ContextRules(hrv, sleep, logs)
    IN  IF context = TypeError
        THEN TypeError
        ELSE context \o HeartRateRule(hr) \o HrvRule(hrv) \o SleepRule(sleep)

analyzeHealthPatterns(metrics, logs) ==
    LET hr == MetricsByType(metrics, "heart_rate")
        hrv == MetricsByType(metrics, "hrv")
        sleep == MetricsByType(metrics, "sleep_duration")
        context == ContextRules(hrv, sleep, logs)
    IN  IF context = TypeError
        THEN TypeError
        ELSE HeartRateRule(hr) \o HrvRule(hrv) \o SleepRule(sleep) \o context


-----------------------------------------------------------------------------
(* The storage collaborator *)

\* .order(column, { ascending: true }): rows in ascending order of the column,
\* rows with equal values in their stored order
RECURSIVE InsertOrdered(_, _, _)
InsertOrdered(sorted, row, column) ==
    IF sorted = <<>> \/ sorted[Len(sorted)][column] <= row[column]
    THEN Append(sorted, row)
    ELSE Append(InsertOrdered(SubSeq(sorted, 1, Len(sorted) - 1), row, column),
                sorted[Len(sorted)])

RECURSIVE OrderBy(_, _)
OrderBy(rows, column) ==
    IF rows = <<>> THEN <<>>
    ELSE InsertOrdered(OrderBy(SubSeq(rows, 1, Len(rows) - 1), column),
                       rows[Len(rows)], column)

\* Date.now(), and new Date(Date.now() - 14 * 24 * 60 * 60 * 1000)
Now == (WindowDays + 2) * HoursPerDay
fourteenDaysAgo == Now - WindowDays * HoursPerDay

\* (variant: the health_metrics query without .eq('user_id', userId))
QueryHealthMetricsAllUsers(table, u) ==
    OrderBy(SelectSeq(table, LAMBDA m : m.recorded_at >= fourteenDaysAgo),
            "recorded_at")

\* from('health_metrics').select('*').eq('user_id', userId)
\*   .gte('recorded_at', fourteenDaysAgo).order('recorded_at', {ascending: true})
QueryHealthMetrics(table, u) ==
    OrderBy(SelectSeq(table, LAMBDA m :
                m.user_id = u /\ m.recorded_at >= fourteenDaysAgo),
            "recorded_at")

\* from('quick_actions_log').select('*').eq('user_id', userId)
\*   .eq('action_type', 'context_log').gte('created_at', fourteenDaysAgo)
\*   .order('created_at', {ascending: true})
QueryContextLogs(table, u) ==
    OrderBy(SelectSeq(table, LAMBDA log :
                /\ log.user_id = u
                /\ log.action_type = "context_log"
                /\ log.created_at >= fourteenDaysAgo),
            "created_at")


-----------------------------------------------------------------------------
(* The request handler: serve(async (req) => { ... }) *)

\* status, the kind of body, the insights of the body and the N of its message
Response(st, msg, list, n) ==
    [status |-> st, message |-> msg, insights |-> list, count |-> n]

NoResponse == Response(0, "none", <<>>, 0)

\* (variant: the rows built in reverse order)
InsightEventsReversed(list, u) ==
    [i \in 1..Len(list) |->
        [user_id |-> u, event_type |-> "insight",
         title |-> list[Len(list) + 1 - i].title,
         description |-> list[Len(list) + 1 - i].description,
         severity |-> list[Len(list) + 1 - i].severity]]

\* insights.map(insight => ({ user_id, event_type: 'insight', title, ... }))
InsightEventsOf(list, u) ==
    [i \in 1..Len(list) |->
        [user_id |-> u, event_type |-> "insight", title |-> list[i].title,
         description |-> list[i].description, severity |-> list[i].severity]]

\* const { userId } = await req.json(); if (!userId) throw ...
Receive ==
    /\ pc = "idle"
    /\ \E u \in Users \cup {NoUserId} :
        /\ userId' = u
        /\ IF u = NoUserId
           THEN /\ response' = Response(500, "error", <<>>, 0)
                /\ pc' = "done"
           ELSE /\ pc' = "fetchMetrics"
                /\ UNCHANGED response
    /\ UNCHANGED nonInsightVars
    /\ UNCHANGED <<health_metrics, quick_actions_log, health_events,
                   healthMetrics, contextLogs, insights, insightEvents,
                   analyzerCalls, inserts, readErrors, insertError>>

\* const { data: healthMetrics } = await supabase.from('health_metrics')...
\* The client resolves to { data: null, error } when the read fails; the
\* handler keeps only data.
FetchHealthMetrics ==
    /\ pc = "fetchMetrics"
    /\ \E failed \in BOOLEAN :
        /\ healthMetrics' = IF failed THEN Null
                            ELSE Array(QueryHealthMetrics(health_metrics, userId))
        /\ readErrors' = IF failed THEN readErrors \cup {"health_metrics"}
                         ELSE readErrors
    /\ pc' = "fetchLogs"
    /\ UNCHANGED nonInsightVars
    /\ UNCHANGED <<health_metrics, quick_actions_log, health_events, userId,
                   contextLogs, insights, insightEvents, response,
                   analyzerCalls, inserts, insertError>>

\* const { data: contextLogs } = await supabase.from('quick_actions_log')...
FetchContextLogs ==
    /\ pc = "fetchLogs"
    /\ \E failed \in BOOLEAN :
        /\ contextLogs' = IF failed THEN Null
                          ELSE Array(QueryContextLogs(quick_actions_log, userId))
        /\ readErrors' = IF failed THEN readErrors \cup {"quick_actions_log"}
                         ELSE readErrors
    /\ pc' = "guard"
    /\ UNCHANGED nonInsightVars
    /\ UNCHANGED <<health_metrics, quick_actions_log, health_events, userId,
                   healthMetrics, insights, insightEvents, response,
                   analyzerCalls, inserts, insertError>>

\* (variant: the threshold off by one)
InsufficientBelowFour(data) == data = Null \/ Len(RowsOf(data)) < MinMetrics - 1

\* !healthMetrics || healthMetrics.length < 5
Insufficient(data) == data = Null \/ Len(RowsOf(data)) < MinMetrics

CheckSufficient ==
    /\ pc = "guard"
    /\ IF Insufficient(healthMetrics)
       THEN /\ response' = Response(200, "insufficient", <<>>, 0)
            /\ pc' = "done"
       ELSE /\ pc' = "analyze"
            /\ UNCHANGED response
    /\ UNCHANGED nonInsightVars
    /\ UNCHANGED <<health_metrics, quick_actions_log, health_events, userId,
                   healthMetrics, contextLogs, insights, insightEvents,
                   analyzerCalls, inserts, readErrors, insertError>>

\* const insights = await analyzeHealthPatterns(healthMetrics, contextLogs);
\* const insightEvents = insights.map(...); an exception goes to the catch
\* (variant: the insert issued without if (insights.length > 0))
AnalyzeAlwaysInserts ==
    /\ pc = "analyze"
    /\ analyzerCalls' = analyzerCalls + 1
    /\ LET result == analyzeHealthPatterns(RowsOf(healthMetrics), contextLogs)
       IN  IF result = TypeError
           THEN /\ response' = Response(500, "error", <<>>, 0)
                /\ pc' = "done"
                /\ UNCHANGED <<insights, insightEvents>>
           ELSE /\ insights' = result
                /\ insightEvents' = InsightEventsOf(result, userId)
                /\ pc' = "insert"
                /\ UNCHANGED response
    /\ UNCHANGED nonInsightVars
    /\ UNCHANGED <<health_metrics, quick_actions_log, health_events, userId,
                   healthMetrics, contextLogs, inserts, readErrors, insertError>>

\* (variant: an analyzer that sorts the metrics it is given by value, in
\* place, before grouping them)
AnalyzeSortsInPlace ==
    /\ pc = "analyze"
    /\ analyzerCalls' = analyzerCalls + 1
    /\ healthMetrics' = Array(OrderBy(RowsOf(healthMetrics), "value"))
    /\ LET result == analyzeHealthPatterns(RowsOf(healthMetrics), contextLogs)
       IN  IF result = TypeError
           THEN /\ response' = Response(500, "error", <<>>, 0)
                /\ pc' = "done"
                /\ UNCHANGED <<insights, insightEvents>>
           ELSE /\ insights' = result
                /\ insightEvents' = InsightEventsOf(result, userId)
                /\ pc' = IF Len(result) > 0 THEN "insert" ELSE "respond"
                /\ UNCHANGED response
    /\ UNCHANGED nonInsightVars
    /\ UNCHANGED <<health_metrics, quick_actions_log, health_events, userId,
                   contextLogs, inserts, readErrors, insertError>>

Analyze ==
    /\ pc = "analyze"
    /\ analyzerCalls' = analyzerCalls + 1
    /\ LET result == analyzeHealthPatterns(RowsOf(healthMetrics), contextLogs)
       IN  IF result = TypeError
           THEN /\ response' = Response(500, "error", <<>>, 0)
                /\ pc' = "done"
                /\ UNCHANGED <<insights, insightEvents>>
           ELSE /\ insights' = result
                /\ insightEvents' = InsightEventsOf(result, userId)
                /\ pc' = IF Len(result) > 0 THEN "insert" ELSE "respond"
                /\ UNCHANGED response
    /\ UNCHANGED nonInsightVars
    /\ UNCHANGED <<health_metrics, quick_actions_log, health_events, userId,
                   healthMetrics, contextLogs, inserts, readErrors, insertError>>

\* (variant: if (insertError) throw insertError)
InsertEventsThrows ==
    /\ pc = "insert"
    /\ inserts' = Append(inserts, insightEvents)
    /\ \E failed \in BOOLEAN :
        /\ insertError' = failed
        /\ health_events' = IF failed THEN health_events
                            ELSE health_events \o insightEvents
        /\ IF failed
           THEN /\ response' = Response(500, "error", <<>>, 0)
                /\ pc' = "done"
           ELSE /\ pc' = "respond"
                /\ UNCHANGED response
    /\ UNCHANGED nonInsightVars
    /\ UNCHANGED <<health_metrics, quick_actions_log, userId, healthMetrics,
                   contextLogs, insights, insightEvents, analyzerCalls,
                   readErrors>>

\* if (insightEvents.length > 0) { const { error: insertError } = await
\*   supabase.from('health_events').insert(insightEvents); ... log ... }
\* (variant: an upsert keyed on user and title, which keeps one row per
\* insight title)
InsertEventsUpsert ==
    /\ pc = "insert"
    /\ inserts' = Append(inserts, insightEvents)
    /\ \E failed \in BOOLEAN :
        /\ insertError' = failed
        /\ health_events' =
             IF failed THEN health_events
             ELSE health_events
                  \o SelectSeq(insightEvents, LAMBDA e :
                        \A i \in 1..Len(health_events) :
                            health_events[i].user_id # e.user_id
                            \/ health_events[i].title # e.title)
    /\ pc' = "respond"
    /\ UNCHANGED nonInsightVars
    /\ UNCHANGED <<health_metrics, quick_actions_log, userId, healthMetrics,
                   contextLogs, insights, insightEvents, response,
                   analyzerCalls, readErrors>>

InsertEvents ==
    /\ pc = "insert"
    /\ inserts' = Append(inserts, insightEvents)
    /\ \E failed \in BOOLEAN :
        /\ insertError' = failed
        /\ health_events' = IF failed THEN health_events
                            ELSE health_events \o insightEvents
    /\ pc' = "respond"
    /\ UNCHANGED nonInsightVars
    /\ UNCHANGED <<health_metrics, quick_actions_log, userId, healthMetrics,
                   contextLogs, insights, insightEvents, response,
                   analyzerCalls, readErrors>>

\* return new Response(JSON.stringify({ insights, message: `Generated ${n} ...` }))
Respond ==
    /\ pc = "respond"
    /\ response' = Response(200, "generated", insights, Len(insights))
    /\ pc' = "done"
    /\ UNCHANGED nonInsightVars
    /\ UNCHANGED <<health_metrics, quick_actions_log, health_events, userId,
                   healthMetrics, contextLogs, insights, insightEvents,
                   analyzerCalls, inserts, readErrors, insertError>>

Next ==
    \/ Receive
    \/ FetchHealthMetrics
    \/ FetchContextLogs
    \/ CheckSufficient
    \/ Analyze
    \/ InsertEvents
    \/ Respond


-----------------------------------------------------------------------------
(* The stored data the runs start from *)

SeqsUpTo(S, n) == UNION {[1..k -> S] : k \in 0..n}

FirstDay == DateOf(fourteenDaysAgo)

\* hour of the day at which each kind of row is written
HourOf == [sleep_duration |-> 7, hrv |-> 8, heart_rate |-> 9, stress_level |-> 21,
           context_log |-> 20]

\* one sample per day from FirstDay on
MetricRows(u, t, vals) ==
    [i \in 1..Len(vals) |->
        [user_id |-> u, metric_type |-> t, value |-> vals[i],
         recorded_at |-> (FirstDay + i - 1) * HoursPerDay + HourOf[t]]]

LogRows(u, kind, entries) ==
    [i \in 1..Len(entries) |->
        [user_id |-> u, action_type |-> kind, data |-> [tags |-> entries[i].tags],
         created_at |-> entries[i].day * HoursPerDay + HourOf.context_log]]

HRValues == {30, 50, 70, 90, 110, 130}
HRVValues == {11, 17, 23, 29, 30, 70}
SleepValues == {6, 7, 8, 12}
TagSets == {{"stressed"}, {"stressed", "workout"}, {"cardio", "caffeine"},
            {"caffeine"}}
LogDays == {FirstDay, FirstDay + 1}
LogEntries == {[tags |-> T, day |-> d] : T \in TagSets, d \in LogDays}

Stressed(d) == <<[tags |-> {"stressed"}, day |-> d]>>

Input(hr, hrv, sleep, other, logs) ==
    [hr |-> hr, hrv |-> hrv, sleep |-> sleep, other |-> other, logs |-> logs]

\* one metric type at a time, every sequence of values up to MaxGroup
HRInputs ==
    {Input(hr, <<>>, <<>>, 1, <<>>) : hr \in SeqsUpTo(HRValues, MaxGroup)}
HRVInputs ==
    {Input(<<>>, hrv, <<>>, 1, <<>>) : hrv \in SeqsUpTo(HRVValues, MaxGroup)}
\* the ten nights of the documented sleep example, six of them short
TenNights == <<6, 6, 6, 6, 6, 6, 8, 8, 8, 8>>
SleepInputs ==
    {Input(<<>>, <<>>, sleep, 1, <<>>) :
        sleep \in SeqsUpTo(SleepValues, MaxGroup) \cup {TenNights}}

\* all types together, each group one of a few shapes
HRGroups == {<<>>, <<30, 70, 70, 70>>, <<70, 70, 70, 70>>}
HRVGroups == {<<>>, <<70, 30, 30, 30>>, <<30, 70>>}
SleepGroups == {<<>>, <<6, 6, 6, 12>>, <<7, 8, 8, 8>>}
MixedInputs ==
    {Input(hr, hrv, sleep, 0, logs) :
        hr \in HRGroups, hrv \in HRVGroups, sleep \in SleepGroups,
        logs \in SeqsUpTo(LogEntries, MaxLogs)}

\* the stored data of the handler runs: every context log on the second day
HandlerInputs ==
    {in \in MixedInputs :
        \A i \in 1..Len(in.logs) : in.logs[i].day = FirstDay + 1}

\* rows of another user, and rows of u1 older than the window or of another
\* action type: always stored, never part of u1's query results
OtherMetricRows ==
    MetricRows("u2", "heart_rate", <<30, 30, 130, 130, 130>>)
    \o <<[user_id |-> "u1", metric_type |-> "hrv", value |-> 70,
          recorded_at |-> fourteenDaysAgo - 1]>>
OtherLogRows ==
    LogRows("u2", "context_log", Stressed(FirstDay))
    \o LogRows("u1", "quick_action", Stressed(FirstDay + 2))

\* n rows of the metric types no rule reads, stress_level and steps in turn,
\* with rising values
OtherTypeRows(u, n) ==
    [i \in 1..n |->
        [user_id |-> u,
         metric_type |-> IF i % 2 = 1 THEN "stress_level" ELSE "steps",
         value |-> 10 * i * i,
         recorded_at |-> (FirstDay + i - 1) * HoursPerDay + HourOf.stress_level]]

MetricTable(in) ==
    OtherMetricRows
    \o MetricRows("u1", "heart_rate", in.hr)
    \o MetricRows("u1", "hrv", in.hrv)
    \o MetricRows("u1", "sleep_duration", in.sleep)
    \o OtherTypeRows("u1", in.other)

LogTable(in) == OtherLogRows \o LogRows("u1", "context_log", in.logs)

Stored(in) ==
    /\ health_metrics = MetricTable(in)
    /\ quick_actions_log = LogTable(in)
    /\ health_events = <<>>

\* no chat request is being served
NoSummary == [metrics |-> [heart_rate |-> <<>>, hrv |-> <<>>,
                           sleep_duration |-> <<>>, stress_level |-> <<>>],
              recentContext |-> <<>>]
NoReply == [rule |-> "", variant |-> "", numbers |-> <<>>]

NoChatResponse == [status |-> 0, response |-> NoReply, healthDataIncluded |-> FALSE]

\* no aura-chat request is being served
ChatLocalsIdle ==
    /\ message = ""
    /\ healthSummary = NoSummary
    /\ aiResponse = NoReply
    /\ chatUserId = NoUserId
    /\ chatMetrics = Null
    /\ conversationData = <<>>
    /\ chatResponse = NoChatResponse
    /\ dbError = FALSE

\* no aura-chat request is being served and no conversation is stored
ChatIdle ==
    /\ ChatLocalsIdle
    /\ ai_conversations = <<>>

NoBluetooth == [isSupported |-> FALSE, devices |-> <<>>]

\* the device hook is not mounted
DeviceIdle ==
    /\ device_connections = <<>>
    /\ devices = <<>>
    /\ deviceError = ""
    /\ bluetooth = NoBluetooth
    /\ deviceCalls = <<>>
    /\ syncInserts = <<>>

NoLoad == [pc |-> "closed", result |-> Null]

\* the chat is closed
ChatUIIdle ==
    /\ messages = <<>>
    /\ inputValue = ""
    /\ isTyping = FALSE
    /\ isLoading = TRUE
    /\ historyLoad = NoLoad
    /\ sends = <<>>

\* the context logger is closed
LoggerIdle ==
    /\ selectedTags = {}
    /\ loggerOpen = FALSE
    /\ saves = <<>>
    /\ loggerInserts = <<>>

HealthData(hr, hrvValue, sleep, stress, loading, err) ==
    [heartRate |-> hr, hrv |-> hrvValue, sleepHours |-> sleep,
     stressLevel |-> stress, isLoading |-> loading, error |-> err]

\* useHealthData is not mounted
HealthDataIdle ==
    /\ healthData = HealthData(0, 0, 0, "Unknown", TRUE, "")
    /\ fetches = <<>>

\* the client components are not mounted
ClientIdle ==
    /\ DeviceIdle
    /\ ChatUIIdle
    /\ LoggerIdle
    /\ HealthDataIdle

\* the components that take no part in the generate-insights function
OthersIdle ==
    /\ ChatIdle
    /\ ClientIdle

FreshRun ==
    /\ insights = <<>>
    /\ insightEvents = <<>>
    /\ response = NoResponse
    /\ analyzerCalls = 0
    /\ inserts = <<>>
    /\ readErrors = {}
    /\ insertError = FALSE

Fresh ==
    /\ FreshRun
    /\ OthersIdle

\* generate-insights is serving no request and its tables are empty
InsightIdle ==
    /\ health_metrics = <<>>
    /\ quick_actions_log = <<>>
    /\ health_events = <<>>
    /\ userId = NoUserId
    /\ healthMetrics = Null
    /\ contextLogs = Null
    /\ FreshRun

\* neither edge function is serving a request and their tables are empty
ServerIdle ==
    /\ InsightIdle
    /\ ChatIdle

Init ==
    /\ \E in \in HandlerInputs : Stored(in)
    /\ pc = "idle"
    /\ userId = NoUserId
    /\ healthMetrics = Null
    /\ contextLogs = Null
    /\ Fresh

Spec == Init /\ [][Next]_vars

-----------------------------------------------------------------------------
(* Requests served one after the other *)

\* serve(async (req) => ...) is invoked once per request: the locals of the
\* finished request are gone, the tables and what was inserted stay
NextRequest ==
    /\ pc = "done"
    /\ analyzerCalls < MaxRuns
    /\ pc' = "idle"
    /\ userId' = NoUserId
    /\ healthMetrics' = Null
    /\ contextLogs' = Null
    /\ insights' = <<>>
    /\ insightEvents' = <<>>
    /\ response' = NoResponse
    /\ readErrors' = {}
    /\ insertError' = FALSE
    /\ UNCHANGED nonInsightVars
    /\ UNCHANGED <<health_metrics, quick_actions_log, health_events,
                   analyzerCalls, inserts>>

\* stored data that gives u1 two insights: a heart-rate rise and a sleep deficit
RunsInputs ==
    {in \in HandlerInputs :
        in.hr = <<30, 70, 70, 70>> /\ in.sleep = <<6, 6, 6, 12>> /\ in.logs = <<>>}

InitRuns ==
    /\ \E in \in RunsInputs : Stored(in)
    /\ pc = "idle"
    /\ userId = NoUserId
    /\ healthMetrics = Null
    /\ contextLogs = Null
    /\ Fresh

NextRuns == Next \/ NextRequest

SpecRuns == InitRuns /\ [][NextRuns]_vars

-----------------------------------------------------------------------------
(* analyzeHealthPatterns called on its own *)

\* up to MaxGroup + 2 samples of other metric types, alone or next to three
\* heart-rate samples
OtherInputs ==
    {Input(hr, <<>>, <<>>, other, <<>>) :
        hr \in {<<>>, <<30, 70, 70>>}, other \in 0..(MaxGroup + 2)}

AnalyzerInputs ==
    HRInputs \cup HRVInputs \cup SleepInputs \cup MixedInputs \cup OtherInputs

InitAnalyze ==
    /\ \E in \in AnalyzerInputs :
        /\ Stored(in)
        /\ healthMetrics = Array(QueryHealthMetrics(MetricTable(in), "u1"))
        /\ contextLogs \in
             {Array(QueryContextLogs(LogTable(in), "u1"))}
             \cup (IF in \in MixedInputs THEN {Null} ELSE {})
    /\ pc = "call"
    /\ userId = "u1"
    /\ Fresh

AnalyzeCall ==
    /\ pc = "call"
    /\ insights' = analyzeHealthPatterns(RowsOf(healthMetrics), contextLogs)
    /\ analyzerCalls' = analyzerCalls + 1
    /\ pc' = "returned"
    /\ UNCHANGED nonInsightVars
    /\ UNCHANGED <<health_metrics, quick_actions_log, health_events, userId,
                   healthMetrics, contextLogs, insightEvents, response,
                   inserts, readErrors, insertError>>

NextAnalyze == AnalyzeCall

SpecAnalyze == InitAnalyze /\ [][NextAnalyze]_vars

-----------------------------------------------------------------------------
(* analyzeHealthPatterns called on groups of any size with tagged context logs *)

TagHRVValues == {27, 33, 70}
TagSleepValues == {6, 7, 8}
StressEntries ==
    {[tags |-> T, day |-> d] : T \in {{"stressed"}, {"caffeine"}}, d \in LogDays}
WorkoutEntries ==
    {[tags |-> T, day |-> d] :
        T \in {{"workout"}, {"cardio", "caffeine"}}, d \in LogDays}

StressInputs ==
    {Input(<<>>, hrv, <<>>, 0, logs) :
        hrv \in SeqsUpTo(TagHRVValues, MaxTagGroup),
        logs \in SeqsUpTo(StressEntries, MaxTagLogs)}
WorkoutInputs ==
    {Input(<<>>, <<>>, sleep, 0, logs) :
        sleep \in SeqsUpTo(TagSleepValues, MaxTagGroup),
        logs \in SeqsUpTo(WorkoutEntries, MaxTagLogs)}

TagInputs == StressInputs \cup WorkoutInputs \cup MixedInputs

InitTags ==
    /\ \E in \in TagInputs :
        /\ Stored(in)
        /\ healthMetrics = Array(QueryHealthMetrics(MetricTable(in), "u1"))
        /\ contextLogs = Array(QueryContextLogs(LogTable(in), "u1"))
    /\ pc = "call"
    /\ userId = "u1"
    /\ Fresh

NextTags == AnalyzeCall

SpecTags == InitTags /\ [][NextTags]_vars


-----------------------------------------------------------------------------
(* aura-chat: the rule-based responder *)

\* String.prototype.includes
Includes(s, sub) ==
    \E i \in 1..(Len(s) - Len(sub) + 1) : SubSeq(s, i, i + Len(sub) - 1) = sub

UpperCase == "ABCDEFGHIJKLMNOPQRSTUVWXYZ"
LowerCase == "abcdefghijklmnopqrstuvwxyz"

LowerChar(c) ==
    IF \E i \in 1..Len(UpperCase) : SubSeq(UpperCase, i, i) = c
    THEN LET i == CHOOSE j \in 1..Len(UpperCase) : SubSeq(UpperCase, j, j) = c
         IN  SubSeq(LowerCase, i, i)
    ELSE c

\* String.prototype.toLowerCase
RECURSIVE toLowerCase(_)
toLowerCase(s) ==
    IF s = "" THEN ""
    ELSE LowerChar(SubSeq(s, 1, 1)) \o toLowerCase(SubSeq(s, 2, Len(s)))

IncludesAny(s, keywords) == \E k \in keywords : Includes(s, k)

\* a reply: the rule that produced it, which of the rule's texts it is and the
\* numbers interpolated into the text; every text in the source is a
\* non-empty literal or template
Reply(rule, variant, numbers) ==
    [rule |-> rule, variant |-> variant, numbers |-> numbers]

\* healthSummary.metrics.<type>?.length > 0
HasData(summary, type) == Len(summary.metrics[type]) > 0

\* the heart-rate reply of a user with heart-rate data: latest against 1.15
\* and 0.85 times the average
HeartRateReply(samples) ==
    LET latestHR == samples[1].value
        avgHR == Mean(samples)
        advice == IF RLess(RScale(avgHR, 115, 100), <<latestHR, 1>>) THEN "elevated"
                  ELSE IF RLess(<<latestHR, 1>>, RScale(avgHR, 85, 100)) THEN "low"
                  ELSE "normal"
    IN  Reply("heart rate", advice, <<latestHR, Round(avgHR)>>)

HrvReply(samples) ==
    LET latestHRV == samples[1].value
        avgHRV == Mean(samples)
        advice == IF RLess(RScale(avgHRV, 11, 10), <<latestHRV, 1>>) THEN "excellent"
                  ELSE IF RLess(<<latestHRV, 1>>, RScale(avgHRV, 9, 10)) THEN "lower"
                  ELSE "normal"
    IN  Reply("hrv", advice, <<latestHRV, Round(avgHRV)>>)

SleepReply(samples) ==
    LET latestSleep == samples[1].value
        avgSleep == Mean(samples)
        advice == IF RLess(avgSleep, <<7, 1>>) THEN "not enough"
                  ELSE IF ~RLess(avgSleep, <<8, 1>>) THEN "excellent"
                  ELSE "decent"
    IN  Reply("sleep", advice, <<latestSleep, ToFixed1(avgSleep)>>)

StressReply(samples) ==
    LET latestStress == samples[1].value
        advice == IF latestStress > 70 THEN "high"
                  ELSE IF latestStress > 50 THEN "moderate"
                  ELSE "manageable"
    IN  Reply("stress", advice, <<latestStress>>)

\* generateFreeAIResponse of the aura-chat function from its second statement
\* on: lowerMessage is message.toLowerCase(); the first rule whose condition
\* holds returns
Cascade(lowerMessage, summary) ==
    LET hasHeartRateData == HasData(summary, "heart_rate")
        hasHRVData == HasData(summary, "hrv")
        hasSleepData == HasData(summary, "sleep_duration")
        hasStressData == HasData(summary, "stress_level")
    IN  IF IncludesAny(lowerMessage, {"hello", "hi", "hey"})
        THEN IF hasHeartRateData \/ hasHRVData \/ hasSleepData
             THEN Reply("greeting", "data synced", <<>>)
             ELSE Reply("greeting", "connect your device", <<>>)
        ELSE IF IncludesAny(lowerMessage, {"heart rate", "hr", "pulse"})
        THEN IF hasHeartRateData
             THEN HeartRateReply(summary.metrics.heart_rate)
             ELSE Reply("heart rate", "education", <<>>)
        ELSE IF IncludesAny(lowerMessage, {"hrv", "heart rate variability", "recovery"})
        THEN IF hasHRVData
             THEN HrvReply(summary.metrics.hrv)
             ELSE Reply("hrv", "education", <<>>)
        ELSE IF IncludesAny(lowerMessage, {"sleep", "rest", "insomnia", "tired"})
        THEN IF hasSleepData
             THEN SleepReply(summary.metrics.sleep_duration)
             ELSE Reply("sleep", "education", <<>>)
        ELSE IF IncludesAny(lowerMessage, {"stress", "anxiety", "mental health", "mood"})
        THEN IF hasStressData
             THEN StressReply(summary.metrics.stress_level)
             ELSE Reply("stress", "education", <<>>)
        ELSE IF IncludesAny(lowerMessage,
                            {"exercise", "workout", "fitness", "cardio", "strength"})
        THEN Reply("exercise", "education", <<>>)
        ELSE IF IncludesAny(lowerMessage,
                            {"nutrition", "diet", "food", "eating", "weight"})
        THEN Reply("nutrition", "education", <<>>)
        ELSE IF IncludesAny(lowerMessage, {"water", "hydration", "dehydrated"})
        THEN Reply("hydration", "education", <<>>)
        ELSE IF IncludesAny(lowerMessage, {"pain", "hurt", "injury", "sore"})
        THEN Reply("pain", "education", <<>>)
        ELSE IF IncludesAny(lowerMessage,
                            {"supplement", "vitamin", "medication", "medicine"})
        THEN Reply("supplements", "education", <<>>)
        ELSE IF IncludesAny(lowerMessage,
                            {"period", "menstrual", "pregnancy", "hormones"})
        THEN Reply("women's health", "education", <<>>)
        ELSE IF IncludesAny(lowerMessage, {"testosterone", "prostate", "male health"})
        THEN Reply("men's health", "education", <<>>)
        ELSE IF IncludesAny(lowerMessage, {"aging", "longevity", "elderly", "old"})
        THEN Reply("aging", "education", <<>>)
        ELSE IF IncludesAny(lowerMessage, {"insight", "pattern", "analysis", "trend"})
        THEN IF hasHeartRateData /\ hasHRVData /\ hasSleepData
             THEN Reply("insights", "your data", <<>>)
             ELSE Reply("insights", "education", <<>>)
        ELSE IF IncludesAny(lowerMessage, {"connect", "device", "sync", "bluetooth"})
        THEN Reply("device", "education", <<>>)
        ELSE IF IncludesAny(lowerMessage,
                            {"emergency", "chest pain", "can't breathe", "urgent"})
        THEN Reply("emergency", "call emergency services", <<>>)
        ELSE IF hasHeartRateData \/ hasHRVData \/ hasSleepData \/ hasStressData
        THEN Reply("default", "your data", <<>>)
        ELSE Reply("default", "connect your device", <<>>)

\* (variant: the emergency rule tried before every other rule)
generateFreeAIResponseEmergencyFirst(msg, summary) ==
    IF IncludesAny(toLowerCase(msg),
                   {"emergency", "chest pain", "can't breathe", "urgent"})
    THEN Reply("emergency", "call emergency services", <<>>)
    ELSE Cascade(toLowerCase(msg), summary)

generateFreeAIResponse(msg, summary) == Cascade(toLowerCase(msg), summary)

\* the older generateFreeAIResponse kept behind the generate-insights function
generateFreeAIResponseLocal(msg, summary) ==
    LET lowerMessage == toLowerCase(msg)
        hasHeartRateData == HasData(summary, "heart_rate")
        hasHRVData == HasData(summary, "hrv")
        hasSleepData == HasData(summary, "sleep_duration")
        hasStressData == HasData(summary, "stress_level")
        context == IF Len(summary.recentContext) > 0 THEN ", context" ELSE ""
        dataTypes == (IF hasHeartRateData THEN "heart rate, " ELSE "")
                     \o (IF hasHRVData THEN "HRV, " ELSE "")
                     \o (IF hasSleepData THEN "sleep, " ELSE "")
                     \o (IF hasStressData THEN "stress, " ELSE "")
    IN  IF IncludesAny(lowerMessage, {"hello", "hi", "hey"})
        THEN IF hasHeartRateData \/ hasHRVData \/ hasSleepData
             THEN Reply("greeting", "data synced", <<>>)
             ELSE Reply("greeting", "connect your device", <<>>)
        ELSE IF IncludesAny(lowerMessage, {"heart rate", "hr"})
        THEN IF hasHeartRateData
             THEN LET latestHR == summary.metrics.heart_rate[1].value
                      avgHR == Mean(summary.metrics.heart_rate)
                  IN  Reply("heart rate",
                            IF RLess(RScale(avgHR, 11, 10), <<latestHR, 1>>)
                            THEN "elevated" ELSE "normal",
                            <<latestHR, Round(avgHR)>>)
             ELSE Reply("heart rate", "no data", <<>>)
        ELSE IF IncludesAny(lowerMessage, {"hrv", "heart rate variability", "recovery"})
        THEN IF hasHRVData
             THEN LET latestHRV == summary.metrics.hrv[1].value
                      avgHRV == Mean(summary.metrics.hrv)
                  IN  Reply("hrv",
                            IF RLess(avgHRV, <<latestHRV, 1>>)
                            THEN "good recovery" ELSE "need more rest",
                            <<latestHRV, Round(avgHRV)>>)
             ELSE Reply("hrv", "no data", <<>>)
        ELSE IF IncludesAny(lowerMessage, {"sleep", "rest"})
        THEN IF hasSleepData
             THEN LET latestSleep == summary.metrics.sleep_duration[1].value
                      avgSleep == Mean(summary.metrics.sleep_duration)
                  IN  Reply("sleep",
                            (IF ~RLess(avgSleep, <<7, 1>>)
                             THEN "great" ELSE "aim for 7-9 hours") \o context,
                            <<latestSleep, ToFixed1(avgSleep)>>)
             ELSE Reply("sleep", "no data", <<>>)
        ELSE IF IncludesAny(lowerMessage, {"stress", "stressed"})
        THEN IF hasStressData
             THEN LET latestStress == summary.metrics.stress_level[1].value
                  IN  Reply("stress",
                            (IF latestStress > 6
                             THEN "relaxation" ELSE "manageable") \o context,
                            <<latestStress>>)
             ELSE Reply("stress", "no data", <<>>)
        ELSE IF IncludesAny(lowerMessage, {"insight", "pattern", "analysis"})
        THEN IF hasHeartRateData /\ hasHRVData /\ hasSleepData
             THEN Reply("insights", "your data", <<>>)
             ELSE Reply("insights", "need more data", <<>>)
        ELSE IF IncludesAny(lowerMessage, {"connect", "device", "sync"})
        THEN Reply("device", "education", <<>>)
        ELSE IF IncludesAny(lowerMessage, {"health", "wellness", "improve"})
        THEN IF Len(dataTypes) > 0
             THEN Reply("wellness", "tracking " \o dataTypes, <<>>)
             ELSE Reply("wellness", "connect your device", <<>>)
        ELSE IF hasHeartRateData \/ hasHRVData \/ hasSleepData \/ hasStressData
        THEN Reply("default", "your data", <<>>)
        ELSE Reply("default", "connect your device", <<>>)

\* the words messages are made of: at least one keyword of every rule, words
\* that contain a keyword of another rule ('this' and 'hi', 'three' and 'hr')
\* and a word that matches no rule
Vocabulary ==
    {"Hi", "hey", "this", "pulse", "three", "recovery", "tired", "stress",
     "workout", "diet", "water", "pain", "vitamin", "period", "prostate", "old",
     "trend", "sync", "urgent", "chest", "health", "thanks"}

\* the words of a message separated by single spaces
RECURSIVE Text(_)
Text(words) ==
    IF words = <<>> THEN ""
    ELSE IF Len(words) = 1 THEN words[1]
    ELSE words[1] \o " " \o Text(Tail(words))

\* the words that follow the first word of a message
FollowingWords == {"Hi", "this", "three", "tired", "pain", "urgent"}

\* the empty message and every message of one word of the vocabulary followed
\* by up to MaxWords - 1 following words
Messages ==
    {""} \cup
    {Text(<<first>> \o rest) :
        first \in Vocabulary, rest \in SeqsUpTo(FollowingWords, MaxWords - 1)}

\* healthSummary.metrics[type]: { value, date } of the rows, latest first
Samples(values) ==
    [i \in 1..Len(values) |->
        [value |-> values[i], date |-> Now - i * HoursPerDay]]

Summary(hr, hrv, sleep, stress, context) ==
    [metrics |-> [heart_rate |-> Samples(hr), hrv |-> Samples(hrv),
                  sleep_duration |-> Samples(sleep),
                  stress_level |-> Samples(stress)],
     recentContext |-> context]

Summaries ==
    {NoSummary,
     Summary(<<90, 60, 60>>, <<>>, <<>>, <<>>, <<>>),
     Summary(<<60, 60>>, <<40, 50>>, <<6, 7>>, <<80>>, <<{"stressed"}>>)}

InitChat ==
    /\ message \in Messages
    /\ healthSummary \in Summaries
    /\ aiResponse = NoReply
    /\ chatUserId = "u1"
    /\ chatMetrics = Null
    /\ ai_conversations = <<>>
    /\ conversationData = <<>>
    /\ chatResponse = NoChatResponse
    /\ dbError = FALSE
    /\ ClientIdle
    /\ pc = "chat"
    /\ health_metrics = <<>>
    /\ quick_actions_log = <<>>
    /\ health_events = <<>>
    /\ userId = "u1"
    /\ healthMetrics = Null
    /\ contextLogs = Null
    /\ insights = <<>>
    /\ insightEvents = <<>>
    /\ response = NoResponse
    /\ analyzerCalls = 0
    /\ inserts = <<>>
    /\ readErrors = {}
    /\ insertError = FALSE

\* const aiResponse = generateFreeAIResponse(message, healthSummary);
ChatReply ==
    /\ pc = "chat"
    /\ aiResponse' = generateFreeAIResponse(message, healthSummary)
    /\ pc' = "replied"
    /\ UNCHANGED <<message, healthSummary, chatUserId, chatMetrics,
                   ai_conversations, conversationData, chatResponse, dbError>>
    /\ UNCHANGED nonChatVars

\* the same call with the older responder
ChatReplyLocal ==
    /\ pc = "chat"
    /\ aiResponse' = generateFreeAIResponseLocal(message, healthSummary)
    /\ pc' = "repliedLocal"
    /\ UNCHANGED <<message, healthSummary, chatUserId, chatMetrics,
                   ai_conversations, conversationData, chatResponse, dbError>>
    /\ UNCHANGED nonChatVars

NextChat == ChatReply \/ ChatReplyLocal

SpecChat == InitChat /\ [][NextChat]_vars

-----------------------------------------------------------------------------
(* aura-chat: the request handler *)

\* the time of a chat request: the seven-day window starts one day after the
\* first stored sample
ChatNow == fourteenDaysAgo + (ChatWindowDays + 1) * HoursPerDay
sevenDaysAgo == ChatNow - ChatWindowDays * HoursPerDay

RECURSIVE Reverse(_)
Reverse(rows) ==
    IF rows = <<>> THEN <<>> ELSE Append(Reverse(Tail(rows)), Head(rows))

\* .limit(n)
Limit(rows, n) == IF Len(rows) <= n THEN rows ELSE SubSeq(rows, 1, n)

\* from('health_metrics').select('*').eq('user_id', userId)
\*   .gte('recorded_at', sevenDaysAgo).order('recorded_at', {ascending: false})
\*   .limit(20)
ChatQueryHealthMetrics(table, u) ==
    Limit(Reverse(OrderBy(SelectSeq(table, LAMBDA m :
                              m.user_id = u /\ m.recorded_at >= sevenDaysAgo),
                          "recorded_at")),
          MetricsLimit)

ChatQueryContextLogs(table, u) ==
    Limit(Reverse(OrderBy(SelectSeq(table, LAMBDA log :
                              /\ log.user_id = u
                              /\ log.action_type = "context_log"
                              /\ log.created_at >= sevenDaysAgo),
                          "created_at")),
          ContextLimit)

\* healthMetrics?.reduce(...) || {} and contextLogs?.map(log => log.data) || []
SummaryOf(metricsData, logsData) ==
    LET rows == IF metricsData = Null THEN <<>> ELSE RowsOf(metricsData)
        logs == IF logsData = Null THEN <<>> ELSE RowsOf(logsData)
        OfType(t) ==
            LET hit == SelectSeq(rows, LAMBDA m : m.metric_type = t)
            IN  [i \in 1..Len(hit) |->
                    [value |-> hit[i].value, date |-> hit[i].recorded_at]]
    IN  [metrics |-> [heart_rate |-> OfType("heart_rate"), hrv |-> OfType("hrv"),
                      sleep_duration |-> OfType("sleep_duration"),
                      stress_level |-> OfType("stress_level")],
         recentContext |-> [i \in 1..Len(logs) |-> logs[i].data.tags]]

ChatResponse(st, reply, included) ==
    [status |-> st, response |-> reply, healthDataIncluded |-> included]

\* the catch block: status 500 with error and fallbackResponse
ChatError == ChatResponse(500, Reply("fallback", "trouble accessing", <<>>), FALSE)

\* the request bodies served: no message, and messages of several rules
ChatBodies == {"", "Hi", "pulse", "chest pain", "thanks"}

\* const { message, userId } = await req.json();
\* if (!message || !userId) throw new Error('Message and userId are required')
ChatReceive ==
    /\ pc = "chatIdle"
    /\ \E msg \in ChatBodies, u \in Users \cup {NoUserId} :
        /\ message' = msg
        /\ chatUserId' = u
        /\ IF msg = "" \/ u = NoUserId
           THEN /\ chatResponse' = ChatError
                /\ pc' = "chatDone"
           ELSE /\ pc' = "chatFetch"
                /\ UNCHANGED chatResponse
    /\ UNCHANGED <<healthSummary, aiResponse, chatMetrics, ai_conversations,
                   conversationData, dbError>>
    /\ UNCHANGED nonChatVars

\* the reads of health_metrics and quick_actions_log (each gives null data
\* when it fails) and the summary built from them
ChatFetch ==
    /\ pc = "chatFetch"
    /\ \E metricsFailed \in BOOLEAN, logsFailed \in BOOLEAN :
        LET metricsData == IF metricsFailed THEN Null
                           ELSE Array(ChatQueryHealthMetrics(health_metrics, chatUserId))
            logsData == IF logsFailed THEN Null
                        ELSE Array(ChatQueryContextLogs(quick_actions_log, chatUserId))
        IN  /\ chatMetrics' = metricsData
            /\ healthSummary' = SummaryOf(metricsData, logsData)
    /\ pc' = "chatGenerate"
    /\ UNCHANGED <<message, aiResponse, chatUserId, ai_conversations,
                   conversationData, chatResponse, dbError>>
    /\ UNCHANGED nonChatVars

\* const aiResponse = generateFreeAIResponse(message, healthSummary);
ChatGenerate ==
    /\ pc = "chatGenerate"
    /\ aiResponse' = generateFreeAIResponse(message, healthSummary)
    /\ pc' = "chatStore"
    /\ UNCHANGED <<message, healthSummary, chatUserId, chatMetrics,
                   ai_conversations, conversationData, chatResponse, dbError>>
    /\ UNCHANGED nonChatVars

\* the function as it asks OpenAI for the reply: a missing key, a response
\* that is not ok and a body without choices[0].message.content throw
ChatGenerateOpenAI ==
    /\ pc = "chatGenerate"
    /\ \E outcome \in {"no key", "not ok", "malformed", "completion"} :
        IF outcome = "completion"
        THEN /\ aiResponse' = Reply("openai", outcome, <<>>)
             /\ pc' = "chatStore"
             /\ UNCHANGED chatResponse
        ELSE /\ chatResponse' = ChatError
             /\ pc' = "chatDone"
             /\ UNCHANGED aiResponse
    /\ UNCHANGED <<message, healthSummary, chatUserId, chatMetrics,
                   ai_conversations, conversationData, dbError>>
    /\ UNCHANGED nonChatVars

\* const conversationData = [{...'user'}, {...'assistant'}]
ConversationRows(u, msg, reply) ==
    <<[user_id |-> u, message |-> msg, response |-> "", message_type |-> "user"],
      [user_id |-> u, message |-> reply, response |-> msg,
       message_type |-> "assistant"]>>

\* (variant: if (dbError) throw dbError)
ChatStoreThrows ==
    /\ pc = "chatStore"
    /\ conversationData' =
         Append(conversationData, ConversationRows(chatUserId, message, aiResponse))
    /\ \E failed \in BOOLEAN :
        /\ dbError' = failed
        /\ ai_conversations' =
             IF failed THEN ai_conversations
             ELSE ai_conversations \o ConversationRows(chatUserId, message, aiResponse)
        /\ IF failed
           THEN chatResponse' = ChatError /\ pc' = "chatDone"
           ELSE pc' = "chatRespond" /\ UNCHANGED chatResponse
    /\ UNCHANGED <<message, healthSummary, aiResponse, chatUserId, chatMetrics>>
    /\ UNCHANGED nonChatVars

\* const { error: dbError } = await supabase.from('ai_conversations')
\*   .insert(conversationData); the error is only logged
ChatStore ==
    /\ pc = "chatStore"
    /\ conversationData' =
         Append(conversationData, ConversationRows(chatUserId, message, aiResponse))
    /\ \E failed \in BOOLEAN :
        /\ dbError' = failed
        /\ ai_conversations' =
             IF failed THEN ai_conversations
             ELSE ai_conversations \o ConversationRows(chatUserId, message, aiResponse)
    /\ pc' = "chatRespond"
    /\ UNCHANGED <<message, healthSummary, aiResponse, chatUserId, chatMetrics,
                   chatResponse>>
    /\ UNCHANGED nonChatVars

\* return new Response(JSON.stringify({ response: aiResponse,
\*   healthDataIncluded: healthMetrics && healthMetrics.length > 0 }))
ChatRespond ==
    /\ pc = "chatRespond"
    /\ chatResponse' =
         ChatResponse(200, aiResponse,
                      chatMetrics # Null /\ Len(RowsOf(chatMetrics)) > 0)
    /\ pc' = "chatDone"
    /\ UNCHANGED <<message, healthSummary, aiResponse, chatUserId, chatMetrics,
                   ai_conversations, conversationData, dbError>>
    /\ UNCHANGED nonChatVars

\* stored data of the chat requests: heart-rate and hrv samples of u1
ChatInputs ==
    {in \in HandlerInputs : in.logs = <<>> /\ in.sleep = <<>>}

InitChatHandler ==
    /\ \E in \in ChatInputs : Stored(in)
    /\ pc = "chatIdle"
    /\ userId = NoUserId
    /\ healthMetrics = Null
    /\ contextLogs = Null
    /\ Fresh

NextChatHandler ==
    \/ ChatReceive
    \/ ChatFetch
    \/ ChatGenerate
    \/ ChatGenerateOpenAI
    \/ ChatStore
    \/ ChatRespond

SpecChatHandler == InitChatHandler /\ [][NextChatHandler]_vars

-----------------------------------------------------------------------------
(* useDeviceConnection and the DeviceConnectionCard that calls it *)

\* the devices the card offers: deviceType and deviceName of a connect call
DeviceKinds ==
    {[type |-> "apple_watch", name |-> "Apple Watch"],
     [type |-> "fitbit", name |-> "Fitbit"]}

\* a device_connections row; last_sync records whether a time was stored
DeviceRow(id, u, type, name, connected, synced) ==
    [id |-> id, user_id |-> u, device_type |-> type, device_name |-> name,
     is_connected |-> connected, last_sync |-> synced]

\* from("device_connections").select("*").eq("user_id", user.id)
\*   .order("created_at", {ascending: false}): ids grow with created_at
SelectDevices(table, u) ==
    Reverse(SelectSeq(table, LAMBDA d : d.user_id = u))

\* array.find over the rows a filter kept: the first of them, or undefined
First(hit) == IF hit = <<>> THEN Null ELSE <<hit[1]>>

\* update(fields) on the rows at the given positions
UpdateRows(table, hits, fields) ==
    [i \in 1..Len(table) |->
        IF i \in hits
        THEN [f \in DOMAIN table[i] |->
                IF f \in DOMAIN fields THEN fields[f] ELSE table[i][f]]
        ELSE table[i]]

\* the positions of the rows of an id: eq("id", id)
WithId(table, id) == {i \in 1..Len(table) : table[i].id = id}

\* the toasts of the card: its catch block runs only if the awaited call rejects
Toast(op, rejected) ==
    IF op = "connect"
    THEN IF rejected THEN "Connection failed" ELSE "Device connected successfully"
    ELSE IF op = "disconnect"
    THEN IF rejected THEN "Disconnection failed" ELSE "Device disconnected"
    ELSE IF rejected THEN "Sync failed" ELSE "Sync completed"

\* a call of the hook made by the card: the devices and bluetooth it reads are
\* those of the render that created the function
DeviceCall(op, type, name, id) ==
    [op |-> op, deviceType |-> type, deviceName |-> name, deviceId |-> id,
     devices |-> devices, bluetooth |-> bluetooth, pc |-> "start",
     registered |-> FALSE, storageError |-> FALSE, caught |-> FALSE,
     inserted |-> 0, toast |-> ""]

\* the hook's catch blocks set error and resolve; the card then shows its toast
Caught(c, storage) ==
    [c EXCEPT !.pc = "done", !.caught = TRUE,
              !.storageError = c.storageError \/ storage,
              !.toast = Toast(c.op, FALSE)]
Resolved(c) == [c EXCEPT !.pc = "done", !.toast = Toast(c.op, FALSE)]

InFlight(i, step) == i \in 1..Len(deviceCalls) /\ deviceCalls[i].pc = step

\* the card calls connectDevice, disconnectDevice or syncHealthData
DeviceCallStart ==
    /\ Len(deviceCalls) < MaxCalls
    /\ \/ \E k \in DeviceKinds :
            deviceCalls' = Append(deviceCalls,
                                  DeviceCall("connect", k.type, k.name, 0))
       \/ \E i \in 1..Len(devices) :
            /\ devices[i].is_connected
            /\ deviceCalls' = Append(deviceCalls,
                 DeviceCall("disconnect", devices[i].device_type,
                            devices[i].device_name, devices[i].id))
       \/ deviceCalls' = Append(deviceCalls, DeviceCall("sync", "", "", 0))
    /\ UNCHANGED <<device_connections, devices, deviceError, bluetooth, syncInserts>>
    /\ UNCHANGED nonDeviceVars

\* the Bluetooth device a call is about
BluetoothMatch(c) ==
    IF c.op = "connect"
    THEN First(SelectSeq(c.bluetooth.devices, LAMBDA d :
                \/ Includes(toLowerCase(d.name), toLowerCase(c.deviceName))
                \/ d.type = c.deviceType))
    ELSE First(SelectSeq(c.bluetooth.devices, LAMBDA d :
                \/ d.type = c.deviceType
                \/ Includes(toLowerCase(d.name), toLowerCase(c.deviceName))))

\* bluetooth.connectToDevice / disconnectDevice: a failure is caught inside
SetConnected(id, connected) ==
    [bluetooth EXCEPT !.devices =
        [j \in 1..Len(bluetooth.devices) |->
            IF bluetooth.devices[j].id = id
            THEN [bluetooth.devices[j] EXCEPT !.connected = connected]
            ELSE bluetooth.devices[j]]]

\* connectDevice / disconnectDevice up to the storage request: setError(null)
\* and the Bluetooth connection
DeviceBluetooth(i) ==
    /\ InFlight(i, "start")
    /\ deviceCalls[i].op \in {"connect", "disconnect"}
    /\ LET c == deviceCalls[i]
           connecting == c.op = "connect"
           found == BluetoothMatch(c)
           known == connecting \/ WithId(c.devices, c.deviceId) # {}
           asked == /\ c.bluetooth.isSupported
                    /\ IF connecting THEN c.bluetooth.devices # <<>> ELSE known
                    /\ found # Null
                    /\ found[1].connected = ~connecting
       IN  /\ \/ /\ asked
                 /\ \E done \in BOOLEAN :
                      bluetooth' = IF done THEN SetConnected(found[1].id, connecting)
                                   ELSE bluetooth
              \/ ~asked /\ UNCHANGED bluetooth
           /\ deviceCalls' = [deviceCalls EXCEPT ![i].pc = "write"]
    /\ deviceError' = ""
    /\ UNCHANGED <<device_connections, devices, syncInserts>>
    /\ UNCHANGED nonDeviceVars

\* connectDevice: const existingDevice = devices.find(...); update it or insert
\* a new row; disconnectDevice: update({is_connected: false}).eq("id", deviceId)
DeviceWrite(i) ==
    /\ InFlight(i, "write")
    /\ LET c == deviceCalls[i]
           existingDevice ==
               First(SelectSeq(c.devices, LAMBDA d : d.device_type = c.deviceType))
       IN  \E failed \in BOOLEAN :
            IF failed
            THEN /\ deviceCalls' = [deviceCalls EXCEPT ![i] = Caught(c, TRUE)]
                 /\ deviceError' = "storage error"
                 /\ UNCHANGED device_connections
            ELSE /\ device_connections' =
                      IF c.op = "disconnect"
                      THEN UpdateRows(device_connections,
                               WithId(device_connections, c.deviceId),
                               [is_connected |-> FALSE])
                      ELSE IF existingDevice # Null
                      THEN UpdateRows(device_connections,
                               WithId(device_connections, existingDevice[1].id),
                               [is_connected |-> TRUE, device_name |-> c.deviceName,
                                last_sync |-> TRUE])
                      ELSE Append(device_connections,
                                  DeviceRow(Len(device_connections) + 1, "u1",
                                            c.deviceType, c.deviceName, TRUE, TRUE))
                 /\ deviceCalls' = [deviceCalls EXCEPT ![i].pc = "fetch",
                                                       ![i].registered = c.op = "connect"]
                 /\ UNCHANGED deviceError
    /\ UNCHANGED <<devices, bluetooth, syncInserts>>
    /\ UNCHANGED nonDeviceVars

\* await fetchDevices(): it catches its own error and leaves devices as it was
DeviceFetch(i) ==
    /\ \/ InFlight(i, "fetch")
       \/ InFlight(i, "syncFetch")
    /\ LET c == deviceCalls[i]
           last == c.op = "disconnect" \/ c.pc = "syncFetch"
       IN  /\ \E failed \in BOOLEAN :
                IF failed
                THEN deviceError' = "storage error" /\ UNCHANGED devices
                ELSE /\ devices' = SelectDevices(device_connections, "u1")
                     /\ deviceError' = ""
           /\ deviceCalls' = [deviceCalls EXCEPT ![i] =
                                 IF last THEN Resolved(c) ELSE [c EXCEPT !.pc = "sync"]]
    /\ UNCHANGED <<device_connections, bluetooth, syncInserts>>
    /\ UNCHANGED nonDeviceVars

\* the five rows of mockHealthData; the random values are left out
MockHealthData(u) ==
    [k \in 1..5 |->
        [user_id |-> u,
         metric_type |-> <<"heart_rate", "hrv", "sleep_duration", "stress_level",
                           "steps">>[k],
         source |-> "wearable_device"]]

\* syncHealthData, called by the card or by connectDevice: hasConnectedDevices
\* and the insert of the batch
DeviceSync(i) ==
    /\ \/ InFlight(i, "sync")
       \/ InFlight(i, "start") /\ deviceCalls[i].op = "sync"
    /\ LET c == deviceCalls[i]
           hasConnectedDevices ==
               \/ \E k \in 1..Len(c.devices) : c.devices[k].is_connected
               \/ \E k \in 1..Len(c.bluetooth.devices) : c.bluetooth.devices[k].connected
       IN  IF hasConnectedDevices
           THEN \E failed \in BOOLEAN :
                  IF failed
                  THEN /\ deviceCalls' = [deviceCalls EXCEPT ![i] = Caught(c, TRUE)]
                       /\ deviceError' = "storage error"
                       /\ UNCHANGED syncInserts
                  ELSE /\ syncInserts' = Append(syncInserts, MockHealthData("u1"))
                       /\ deviceCalls' = [deviceCalls EXCEPT ![i].pc = "syncUpdate",
                                                             ![i].inserted = c.inserted + 1]
                       /\ deviceError' = ""
           ELSE /\ deviceCalls' = [deviceCalls EXCEPT ![i] = Caught(c, FALSE)]
                /\ deviceError' = "Health data API not available on this device"
                /\ UNCHANGED syncInserts
    /\ UNCHANGED <<device_connections, devices, bluetooth>>
    /\ UNCHANGED nonDeviceVars

\* syncHealthData: update({last_sync}).eq("user_id", user.id).eq("is_connected", true)
DeviceSyncUpdate(i) ==
    /\ InFlight(i, "syncUpdate")
    /\ LET c == deviceCalls[i]
       IN  \E failed \in BOOLEAN :
            IF failed
            THEN /\ deviceCalls' = [deviceCalls EXCEPT ![i] = Caught(c, TRUE)]
                 /\ deviceError' = "storage error"
                 /\ UNCHANGED device_connections
            ELSE /\ device_connections' =
                      UpdateRows(device_connections,
                          {k \in 1..Len(device_connections) :
                              /\ device_connections[k].user_id = "u1"
                              /\ device_connections[k].is_connected},
                          [last_sync |-> TRUE])
                 /\ deviceCalls' = [deviceCalls EXCEPT ![i].pc = "syncFetch"]
                 /\ UNCHANGED deviceError
    /\ UNCHANGED <<devices, bluetooth, syncInserts>>
    /\ UNCHANGED nonDeviceVars

\* the rows stored before the hook mounts
DeviceTables ==
    {<<>>,
     <<DeviceRow(1, "u1", "apple_watch", "Apple Watch", FALSE, TRUE)>>,
     <<DeviceRow(1, "u2", "fitbit", "Fitbit", TRUE, TRUE),
       DeviceRow(2, "u1", "fitbit", "Fitbit", TRUE, FALSE)>>}

BluetoothStates ==
    {NoBluetooth,
     [isSupported |-> TRUE,
      devices |-> <<[id |-> "bt1", name |-> "Apple Watch Series 9",
                     type |-> "apple_watch", connected |-> FALSE]>>]}

\* the hook after its first fetchDevices, which succeeded or failed
InitDevices ==
    /\ device_connections \in DeviceTables
    /\ \/ devices = SelectDevices(device_connections, "u1") /\ deviceError = ""
       \/ devices = <<>> /\ deviceError = "storage error"
    /\ bluetooth \in BluetoothStates
    /\ deviceCalls = <<>>
    /\ syncInserts = <<>>
    /\ pc = "client"
    /\ ServerIdle
    /\ ChatUIIdle
    /\ LoggerIdle
    /\ HealthDataIdle

NextDevices ==
    \/ DeviceCallStart
    \/ \E i \in 1..MaxCalls :
        \/ DeviceBluetooth(i)
        \/ DeviceWrite(i)
        \/ DeviceFetch(i)
        \/ DeviceSync(i)
        \/ DeviceSyncUpdate(i)

SpecDevices == InitDevices /\ [][NextDevices]_vars

-----------------------------------------------------------------------------
(* ChatInterface *)

\* what the user types: blank texts and a question
Inputs == {"", " ", "hi"}

\* String.prototype.trim over the texts typed
RECURSIVE TrimStart(_)
TrimStart(s) ==
    IF Len(s) > 0 /\ SubSeq(s, 1, 1) = " " THEN TrimStart(SubSeq(s, 2, Len(s)))
    ELSE s

RECURSIVE TrimEnd(_)
TrimEnd(s) ==
    IF Len(s) > 0 /\ SubSeq(s, Len(s), Len(s)) = " "
    THEN TrimEnd(SubSeq(s, 1, Len(s) - 1))
    ELSE s

Trim(s) == TrimEnd(TrimStart(s))

\* a Message of the list; the timestamp is left out
Message(id, content, isUser) == [id |-> id, content |-> content, isUser |-> isUser]

Welcome == Message(<<"welcome", 0>>, "Hello! I'm your Aura assistant.", FALSE)

\* conversations?.map(conv => ({id: conv.id, content: conv.message,
\*   isUser: conv.message_type === 'user'})), or the welcome message
FormattedMessages(rows) ==
    IF rows = <<>> THEN <<Welcome>>
    ELSE [k \in 1..Len(rows) |->
            Message(<<"row", rows[k].id>>, rows[k].message,
                    rows[k].message_type = "user")]

\* from('ai_conversations').select('*').eq('user_id', user.id)
\*   .order('created_at', {ascending: true}).limit(20)
SelectConversations(table, u) ==
    LET own == {k \in 1..Len(table) : table[k].user_id = u}
        Row(k) == [id |-> k, message |-> table[k].message,
                   message_type |-> table[k].message_type]
        RECURSIVE From(_)
        From(k) == IF k > Len(table) THEN <<>>
                   ELSE IF k \in own THEN <<Row(k)>> \o From(k + 1)
                   ELSE From(k + 1)
    IN  Limit(From(1), HistoryLimit)

\* useEffect on isOpen: loadConversationHistory up to supabase.auth.getUser()
LoadAuth ==
    /\ historyLoad.pc = "auth"
    /\ \E signedIn \in BOOLEAN :
        IF signedIn
        THEN /\ historyLoad' = [historyLoad EXCEPT !.pc = "select"]
             /\ UNCHANGED isLoading
        ELSE /\ historyLoad' = [historyLoad EXCEPT !.pc = "done"]
             /\ isLoading' = FALSE
    /\ UNCHANGED <<messages, inputValue, isTyping, sends, ai_conversations>>
    /\ UNCHANGED nonChatUIVars

\* the select runs in the database
LoadSelect ==
    /\ historyLoad.pc = "select"
    /\ \E failed \in BOOLEAN :
        historyLoad' =
            [pc |-> "response",
             result |-> IF failed THEN Null
                        ELSE Array(SelectConversations(ai_conversations, "u1"))]
    /\ UNCHANGED <<messages, inputValue, isTyping, isLoading, sends, ai_conversations>>
    /\ UNCHANGED nonChatUIVars

\* the select's result arrives: setMessages(formattedMessages), or the
\* fallback welcome message in the catch block; finally setIsLoading(false)
LoadResponse ==
    /\ historyLoad.pc = "response"
    /\ messages' = IF historyLoad.result = Null THEN <<Welcome>>
                   ELSE FormattedMessages(RowsOf(historyLoad.result))
    /\ isLoading' = FALSE
    /\ historyLoad' = [historyLoad EXCEPT !.pc = "done"]
    /\ UNCHANGED <<inputValue, isTyping, sends, ai_conversations>>
    /\ UNCHANGED nonChatUIVars

\* onChange of the Input, which is disabled while isTyping
ChatType ==
    /\ ~isTyping
    /\ \E text \in Inputs : inputValue' = text
    /\ inputValue' # inputValue
    /\ UNCHANGED <<messages, isTyping, isLoading, historyLoad, sends, ai_conversations>>
    /\ UNCHANGED nonChatUIVars

Send(content, step) ==
    [content |-> content, pc |-> step, result |-> "", replies |-> 0]

\* handleSendMessage up to supabase.auth.getUser()
ChatSend ==
    /\ Len(sends) < MaxSends
    /\ IF Trim(inputValue) = "" \/ isTyping
       THEN /\ sends' = Append(sends, Send(inputValue, "rejected"))
            /\ UNCHANGED <<messages, inputValue, isTyping>>
       ELSE /\ messages' = Append(messages,
                                  Message(<<"sent", Len(sends) + 1>>, inputValue, TRUE))
            /\ inputValue' = ""
            /\ isTyping' = TRUE
            /\ sends' = Append(sends, Send(inputValue, "auth"))
    /\ UNCHANGED <<isLoading, historyLoad, ai_conversations>>
    /\ UNCHANGED nonChatUIVars

AuraReply == "reply of aura-chat"
ConnectionError == "I'm having trouble connecting right now."

\* (variant: the catch block appends no message)
ErrorResponseDropped(list, i) == list

\* the catch block: setMessages((prev) => [...prev, errorResponse])
ErrorResponse(list, i) ==
    Append(list, Message(<<"reply", i>>, ConnectionError, FALSE))

\* handleSendMessage: getUser() resolves; no user throws into the catch block
SendAuth(i) ==
    /\ i \in 1..Len(sends)
    /\ sends[i].pc = "auth"
    /\ \E signedIn \in BOOLEAN :
        IF signedIn
        THEN /\ sends' = [sends EXCEPT ![i].pc = "invoke"]
             /\ UNCHANGED <<messages, isTyping>>
        ELSE /\ messages' = ErrorResponse(messages, i)
             /\ isTyping' = FALSE
             /\ sends' = [sends EXCEPT ![i].pc = "done",
                                       ![i].replies = Len(messages') - Len(messages)]
    /\ UNCHANGED <<inputValue, isLoading, historyLoad, ai_conversations>>
    /\ UNCHANGED nonChatUIVars

\* supabase.functions.invoke('aura-chat'): the function stores the two rows
\* and replies, replies without storing them, or fails
SendInvoke(i) ==
    /\ i \in 1..Len(sends)
    /\ sends[i].pc = "invoke"
    /\ \E outcome \in {"stored", "not stored", "error"} :
        /\ sends' = [sends EXCEPT ![i].pc = "response", ![i].result = outcome]
        /\ ai_conversations' =
             IF outcome = "stored"
             THEN ai_conversations \o ConversationRows("u1", sends[i].content, AuraReply)
             ELSE ai_conversations
    /\ UNCHANGED <<messages, inputValue, isTyping, isLoading, historyLoad>>
    /\ UNCHANGED nonChatUIVars

\* the invocation's result arrives: the reply or the error text is appended;
\* finally setIsTyping(false)
SendResponse(i) ==
    /\ i \in 1..Len(sends)
    /\ sends[i].pc = "response"
    /\ messages' = IF sends[i].result = "error" THEN ErrorResponse(messages, i)
                   ELSE Append(messages, Message(<<"reply", i>>, AuraReply, FALSE))
    /\ isTyping' = FALSE
    /\ sends' = [sends EXCEPT ![i].pc = "done",
                              ![i].replies = Len(messages') - Len(messages)]
    /\ UNCHANGED <<inputValue, isLoading, historyLoad, ai_conversations>>
    /\ UNCHANGED nonChatUIVars

\* the conversations stored before the chat opens
StoredConversations ==
    {<<>>,
     ConversationRows("u2", "hi", AuraReply),
     ConversationRows("u1", "earlier question", AuraReply)}

\* the chat has just been opened: the history load is under way
InitChatUI ==
    /\ ai_conversations \in StoredConversations
    /\ messages = <<>>
    /\ inputValue = ""
    /\ isTyping = FALSE
    /\ isLoading = TRUE
    /\ historyLoad = [pc |-> "auth", result |-> Null]
    /\ sends = <<>>
    /\ pc = "client"
    /\ InsightIdle
    /\ ChatLocalsIdle
    /\ DeviceIdle
    /\ LoggerIdle
    /\ HealthDataIdle

SendStep ==
    \E i \in 1..MaxSends :
        \/ SendAuth(i)
        \/ SendInvoke(i)
        \/ SendResponse(i)

NextChatUI ==
    \/ LoadAuth
    \/ LoadSelect
    \/ LoadResponse
    \/ ChatType
    \/ ChatSend
    \/ SendStep

\* getUser() and the invocation settle: a request that is under way is
\* answered or fails
SpecChatUI == InitChatUI /\ [][NextChatUI]_vars /\ WF_vars(SendStep)

-----------------------------------------------------------------------------
(* useBluetoothDevices: scanForDevices and getDeviceType *)

getDeviceType(deviceName) ==
    LET name == toLowerCase(deviceName)
    IN  IF Includes(name, "apple watch") \/ Includes(name, "watch") THEN "apple_watch"
        ELSE IF Includes(name, "galaxy") \/ Includes(name, "samsung")
        THEN "samsung_watch"
        ELSE IF Includes(name, "fitbit") THEN "fitbit"
        ELSE IF Includes(name, "garmin") THEN "garmin"
        ELSE IF Includes(name, "polar") THEN "polar"
        ELSE IF Includes(name, "amazfit") THEN "amazfit"
        ELSE IF Includes(name, "huawei") THEN "huawei_watch"
        ELSE "wearable_device"

\* the names of the devices the chooser offers: the prefixes of the scan
\* filters, devices found by their services, and a device without a name
ScanNames ==
    {"Apple Watch SE", "Galaxy Watch", "Samsung Gear", "Fitbit Versa",
     "Garmin Venu", "Polar H10", "Amazfit Bip", "Huawei Watch", "Huawei Band",
     "Mi Band", "WATCH-X", ""}

\* scanForDevices: the chosen device is added to the list, or replaces the
\* entry of the same id; then its services are read, which connects it
scanForDevices ==
    /\ bluetooth.isSupported
    /\ \E chosen \in ScanNames, served \in BOOLEAN :
        LET newDevice ==
                [id |-> chosen,
                 name |-> IF chosen = "" THEN "Unknown Device" ELSE chosen,
                 type |-> getDeviceType(chosen),
                 connected |-> served]
            prev == bluetooth.devices
        IN  /\ \/ WithId(prev, chosen) # {}
               \/ Len(prev) < MaxNames
            /\ bluetooth' =
                 [bluetooth EXCEPT !.devices =
                    IF WithId(prev, chosen) # {}
                    THEN [k \in 1..Len(prev) |->
                            IF prev[k].id = chosen
                            THEN [newDevice EXCEPT !.connected =
                                                      served \/ prev[k].connected]
                            ELSE prev[k]]
                    ELSE Append(prev, newDevice)]
    /\ UNCHANGED <<device_connections, devices, deviceError, deviceCalls, syncInserts>>
    /\ UNCHANGED nonDeviceVars

InitScan ==
    /\ device_connections = <<>>
    /\ devices = <<>>
    /\ deviceError = ""
    /\ bluetooth = [isSupported |-> TRUE, devices |-> <<>>]
    /\ deviceCalls = <<>>
    /\ syncInserts = <<>>
    /\ pc = "client"
    /\ ServerIdle
    /\ ChatUIIdle
    /\ LoggerIdle
    /\ HealthDataIdle

NextScan == scanForDevices

SpecScan == InitScan /\ [][NextScan]_vars

-----------------------------------------------------------------------------
(* ContextLogger *)

\* ids of the contextTags catalog
ContextTags == {"stressed", "workout"}

\* toggleTag: a copy of the set with the tag removed if present, else added
Toggled(selected, tagId) ==
    IF tagId \in selected THEN selected \ {tagId} ELSE selected \cup {tagId}

toggleTag ==
    /\ loggerOpen
    /\ \E tagId \in ContextTags : selectedTags' = Toggled(selectedTags, tagId)
    /\ UNCHANGED <<loggerOpen, saves, loggerInserts>>
    /\ UNCHANGED nonLoggerVars

\* the parent opens the logger, or the user closes it with the X button
LoggerToggle ==
    /\ loggerOpen' = ~loggerOpen
    /\ UNCHANGED <<selectedTags, saves, loggerInserts>>
    /\ UNCHANGED nonLoggerVars

Save(tags, step, result) == [tags |-> tags, pc |-> step, result |-> result]

\* handleSave up to supabase.auth.getUser(); it returns at once when nothing
\* is selected
handleSave ==
    /\ loggerOpen
    /\ Len(saves) < MaxSaves
    /\ saves' = Append(saves,
                       IF selectedTags = {} THEN Save({}, "done", "nothing selected")
                       ELSE Save(selectedTags, "auth", ""))
    /\ UNCHANGED <<selectedTags, loggerOpen, loggerInserts>>
    /\ UNCHANGED nonLoggerVars

\* getUser() resolves; no user throws into the catch block, which shows
\* 'Failed to save context'
SaveAuth(i) ==
    /\ i \in 1..Len(saves)
    /\ saves[i].pc = "auth"
    /\ \E signedIn \in BOOLEAN :
        saves' = [saves EXCEPT ![i] =
                    IF signedIn THEN Save(saves[i].tags, "insert", "")
                    ELSE Save(saves[i].tags, "done", "Failed to save context")]
    /\ UNCHANGED <<selectedTags, loggerOpen, loggerInserts>>
    /\ UNCHANGED nonLoggerVars

\* (variant: the catch block also clears the selection and closes the logger)
SaveInsertGivesUp(i) ==
    /\ i \in 1..Len(saves)
    /\ saves[i].pc = "insert"
    /\ \E failed \in BOOLEAN :
        IF failed
        THEN /\ saves' = [saves EXCEPT ![i] =
                            Save(saves[i].tags, "done", "Failed to save context")]
             /\ selectedTags' = {}
             /\ loggerOpen' = FALSE
             /\ UNCHANGED loggerInserts
        ELSE /\ loggerInserts' =
                  Append(loggerInserts,
                         [user_id |-> "u1", action_type |-> "context_log",
                          data |-> [tags |-> saves[i].tags]])
             /\ saves' = [saves EXCEPT ![i] =
                            Save(saves[i].tags, "done", "Context logged successfully")]
             /\ selectedTags' = {}
             /\ loggerOpen' = FALSE
    /\ UNCHANGED nonLoggerVars

\* from("quick_actions_log").insert(contextData): on success the toast,
\* setSelectedTags(new Set()) and onClose(); on an error the failure toast
SaveInsert(i) ==
    /\ i \in 1..Len(saves)
    /\ saves[i].pc = "insert"
    /\ \E failed \in BOOLEAN :
        IF failed
        THEN /\ saves' = [saves EXCEPT ![i] =
                            Save(saves[i].tags, "done", "Failed to save context")]
             /\ UNCHANGED <<selectedTags, loggerOpen, loggerInserts>>
        ELSE /\ loggerInserts' =
                  Append(loggerInserts,
                         [user_id |-> "u1", action_type |-> "context_log",
                          data |-> [tags |-> saves[i].tags]])
             /\ saves' = [saves EXCEPT ![i] =
                            Save(saves[i].tags, "done", "Context logged successfully")]
             /\ selectedTags' = {}
             /\ loggerOpen' = FALSE
    /\ UNCHANGED nonLoggerVars

\* the logger has just been opened
InitLogger ==
    /\ selectedTags = {}
    /\ loggerOpen = TRUE
    /\ saves = <<>>
    /\ loggerInserts = <<>>
    /\ pc = "client"
    /\ ServerIdle
    /\ DeviceIdle
    /\ ChatUIIdle
    /\ HealthDataIdle

NextLogger ==
    \/ toggleTag
    \/ LoggerToggle
    \/ handleSave
    \/ \E i \in 1..MaxSaves :
        \/ SaveAuth(i)
        \/ SaveInsert(i)

SpecLogger == InitLogger /\ [][NextLogger]_vars

-----------------------------------------------------------------------------
(* useHealthData *)

\* the types and values of the rows inserted while the hook is mounted
DisplayedTypes == {"heart_rate", "stress_level"}
InsertedValues == {20, 80}

\* the rows of the last day, newest first:
\* .eq("user_id", user.id).gte("recorded_at", yesterday).order("recorded_at", desc)
RecentMetrics(table, u, now) ==
    Reverse(OrderBy(SelectSeq(table, LAMBDA m :
                        m.user_id = u /\ m.recorded_at >= now - HoursPerDay),
                    "recorded_at"))

\* metrics.reduce(...): per type the row with the greatest recorded_at, the
\* first of them in the order of the result
LatestMetrics(metrics) ==
    [t \in {metrics[k].metric_type : k \in 1..Len(metrics)} |->
        LET rows == SelectSeq(metrics, LAMBDA m : m.metric_type = t)
            best == CHOOSE k \in 1..Len(rows) :
                        /\ \A j \in 1..Len(rows) :
                              rows[j].recorded_at <= rows[k].recorded_at
                        /\ \A j \in 1..(k - 1) :
                              rows[j].recorded_at < rows[k].recorded_at
        IN  rows[best]]

\* latestMetrics.<type>?.value || 0
ValueOr0(latest, t) == IF t \in DOMAIN latest THEN latest[t].value ELSE 0

StressLabel(latest) ==
    LET v == ValueOr0(latest, "stress_level")
    IN  IF v = 0 THEN "Unknown"
        ELSE IF v < 30 THEN "Low" ELSE IF v < 70 THEN "Medium" ELSE "High"

\* the hour of the next insert and of the queries: rows are stored in the
\* order of their recorded_at
HealthNow == Now + Len(health_metrics)

Fetch(step, result) == [pc |-> step, result |-> result]

\* a row of the user is inserted (by a device sync); the realtime INSERT
\* notification calls fetchLatestHealthData: isLoading set, error cleared
InsertMetric ==
    /\ Len(fetches) < MaxFetches
    /\ \E t \in DisplayedTypes, v \in InsertedValues :
        health_metrics' =
            Append(health_metrics,
                   [user_id |-> "u1", metric_type |-> t, value |-> v,
                    recorded_at |-> HealthNow])
    /\ fetches' = Append(fetches, Fetch("query", Null))
    /\ healthData' = [healthData EXCEPT !.isLoading = TRUE, !.error = ""]
    /\ UNCHANGED nonHealthDataVars

\* the select of a fetch runs in the database
FetchQuery(i) ==
    /\ i \in 1..Len(fetches)
    /\ fetches[i].pc = "query"
    /\ \E failed \in BOOLEAN :
        fetches' = [fetches EXCEPT ![i] =
            Fetch("response",
                  IF failed THEN Null
                  ELSE Array(RecentMetrics(health_metrics, "u1", HealthNow)))]
    /\ UNCHANGED <<health_metrics, healthData>>
    /\ UNCHANGED nonHealthDataVars

\* the response of a fetch arrives: setHealthData with the latest value of
\* each type, or the error kept with the values shown before
FetchResponse(i) ==
    /\ i \in 1..Len(fetches)
    /\ fetches[i].pc = "response"
    /\ fetches' = [fetches EXCEPT ![i].pc = "done"]
    /\ healthData' =
         IF fetches[i].result = Null
         THEN [healthData EXCEPT !.isLoading = FALSE, !.error = "storage error"]
         ELSE LET latestMetrics == LatestMetrics(RowsOf(fetches[i].result))
              IN  HealthData(ValueOr0(latestMetrics, "heart_rate"),
                             ValueOr0(latestMetrics, "hrv"),
                             ValueOr0(latestMetrics, "sleep_duration"),
                             StressLabel(latestMetrics), FALSE, "")
    /\ UNCHANGED health_metrics
    /\ UNCHANGED nonHealthDataVars

\* the rows stored before the hook mounts: none, or samples of both users
StoredMetrics ==
    {<<>>,
     <<[user_id |-> "u2", metric_type |-> "heart_rate", value |-> 99,
        recorded_at |-> Now - 2],
       [user_id |-> "u1", metric_type |-> "heart_rate", value |-> 60,
        recorded_at |-> Now - 1]>>}

\* the hook has mounted for a signed-in user: the first fetch is under way
InitHealthData ==
    /\ health_metrics \in StoredMetrics
    /\ healthData = HealthData(0, 0, 0, "Unknown", TRUE, "")
    /\ fetches = <<Fetch("query", Null)>>
    /\ pc = "client"
    /\ quick_actions_log = <<>>
    /\ health_events = <<>>
    /\ userId = NoUserId
    /\ healthMetrics = Null
    /\ contextLogs = Null
    /\ FreshRun
    /\ ChatIdle
    /\ DeviceIdle
    /\ ChatUIIdle
    /\ LoggerIdle

NextHealthData ==
    \/ InsertMetric
    \/ \E i \in 1..MaxFetches :
        \/ FetchQuery(i)
        \/ FetchResponse(i)

SpecHealthData == InitHealthData /\ [][NextHealthData]_vars

-----------------------------------------------------------------------------
(* Properties *)

HeartRateTitles == {"Elevated Heart Rate Pattern", "Improved Heart Rate Recovery"}
HrvTitles == {"HRV Indicates Increased Stress", "Excellent HRV Recovery"}
SleepTitles == {"Consistent Sleep Deficit", "Optimal Sleep Pattern"}
StressTitle == "Stress Impact on Recovery"
WorkoutTitle == "Exercise Improves Sleep Quality"

\* position of the rule that emits an insight with title t
RuleOf(t) ==
    CASE t \in HeartRateTitles -> 1
      [] t \in HrvTitles -> 2
      [] t \in SleepTitles -> 3
      [] t = StressTitle -> 4
      [] t = WorkoutTitle -> 5
      [] OTHER -> 0

Titled(list, T) == SelectSeq(list, LAMBDA x : x.title \in T)

\* the values of the samples of type t passed to the analyzer, in order
ValuesOfType(t) == Values(MetricsByType(RowsOf(healthMetrics), t))

NoContext == contextLogs = Null \/ RowsOf(contextLogs) = <<>>

Handled == pc \in {"analyze", "insert", "respond", "done"} /\ userId \in Users

FewerThanFive == healthMetrics = Null \/ Len(RowsOf(healthMetrics)) < 5

\* C1: a request whose fetched metrics are null or fewer than 5 ends at once
\* with the 'insufficient data' message and status 200 (not 500), without
\* calling analyzeHealthPatterns and without submitting or storing any
\* health_events row.
C1_InsufficientShortCircuits ==
    (Handled /\ FewerThanFive) =>
        /\ pc = "done"
        /\ response.status = 200
        /\ response.message = "insufficient"
        /\ response.insights = <<>>
        /\ analyzerCalls = 0
        /\ inserts = <<>>
        /\ health_events = <<>>

C1_Witness ==
    /\ pc = "done"
    /\ healthMetrics # Null
    /\ Len(RowsOf(healthMetrics)) = 4
    /\ Len(MetricsByType(RowsOf(healthMetrics), "heart_rate")) = 4
    /\ response.message = "insufficient"

C3_ReadErrorFailsRequest ==
    (readErrors # {}) =>
        /\ analyzerCalls = 0
        /\ inserts = <<>>
        /\ (pc = "done" => response.status = 500)

\* C4: when the insert into health_events returned an error the response is
\* still status 200 with the complete insight list and the count message.
C4_InsertErrorTolerated ==
    (pc = "done" /\ insertError) =>
        /\ response.status = 200
        /\ response.message = "generated"
        /\ response.insights =
               analyzeHealthPatterns(RowsOf(healthMetrics), contextLogs)
        /\ response.count = Len(response.insights)
        /\ response.insights # <<>>

C4_Witness ==
    /\ pc = "done"
    /\ insertError
    /\ response.status = 200
    /\ Len(response.insights) >= 2

\* the rows submitted to health_events.insert by the request
Submitted == IF inserts = <<>> THEN <<>> ELSE inserts[1]

\* C5: a request that reached analysis submits exactly one row per returned
\* insight, in the same order, each with the request's userId, event_type
\* 'insight' and the insight's title, description and severity; the N of the
\* message equals the length of the returned list.
C5_OneRowPerInsight ==
    (pc = "done" /\ analyzerCalls > 0) =>
        /\ Len(inserts) <= 1
        /\ response.count = Len(response.insights)
        /\ Len(Submitted) = Len(response.insights)
        /\ \A i \in 1..Len(Submitted) :
               Submitted[i] =
                   [user_id |-> userId, event_type |-> "insight",
                    title |-> response.insights[i].title,
                    description |-> response.insights[i].description,
                    severity |-> response.insights[i].severity]

C5_Witness ==
    /\ pc = "done"
    /\ Len(Submitted) >= 3
    /\ Submitted[1].title # Submitted[2].title
    /\ Submitted[1].user_id = "u1"
    /\ response.count = Len(Submitted)

\* C6: the returned insights follow the rule order heart_rate, hrv,
\* sleep_duration, stress tag, workout tag: every insight belongs to one of
\* the five rules, rule positions strictly increase along the list (so each
\* rule contributes at most one and there are at most 5), and an insight a
\* rule emits is kept whatever the other rules emit (the hrv insight and the
\* stress-tag insight both stay).
C6_FixedRuleOrder ==
    (pc = "returned") =>
        /\ \A i \in 1..Len(insights) : RuleOf(insights[i].title) \in 1..5
        /\ \A i \in 1..Len(insights) : \A j \in 1..Len(insights) :
               i < j => RuleOf(insights[i].title) < RuleOf(insights[j].title)
        /\ Len(insights) <= 5
        /\ LET hrv == MetricsByType(RowsOf(healthMetrics), "hrv")
               sleep == MetricsByType(RowsOf(healthMetrics), "sleep_duration")
           IN  /\ Titled(insights, HrvTitles) = HrvRule(hrv)
               /\ ~NoContext =>
                    /\ Titled(insights, {StressTitle})
                           = StressRule(hrv, RowsOf(contextLogs))
                    /\ Titled(insights, {WorkoutTitle})
                           = WorkoutRule(sleep, RowsOf(contextLogs))

C6_Witness ==
    /\ pc = "returned"
    /\ Len(insights) = 5
    /\ insights[2].title = "HRV Indicates Increased Stress"
    /\ insights[4].title = StressTitle


\* Math.round(100 * |a - b| / b) for the means a = s3/3 and b = s/n, n > 0
RoundedPercent(s3, s, n) ==
    LET d == IF n * s3 >= 3 * s THEN n * s3 - 3 * s ELSE 3 * s - n * s3
    IN  (200 * d + 3 * s) \div (6 * s)

RECURSIVE ShortNights(_)
ShortNights(v) ==
    IF v = <<>> THEN 0
    ELSE (IF Head(v) < 7 THEN 1 ELSE 0) + ShortNights(Tail(v))

\* C9: for a sleep_duration group of more than 3 samples: when the number of
\* samples below 7 is strictly more than half the group, exactly one
\* 'attention' insight citing that number out of the group size (also when
\* the mean is >= 7.5); otherwise, when the mean is >= 7.5, exactly one 'info'
\* insight; otherwise none.  Exactly half short nights is no deficit.
C9_SleepRule ==
    (pc = "returned" /\ Len(ValuesOfType("sleep_duration")) > 3) =>
        LET v == ValuesOfType("sleep_duration")
            n == Len(v)
            short == ShortNights(v)
            got == Titled(insights, SleepTitles)
        IN  /\ 2 * short > n =>
                got = <<Insight("Consistent Sleep Deficit", <<short, n>>,
                                "attention")>>
            /\ (2 * short <= n /\ 2 * Sum(v) >= 15 * n) =>
                /\ Len(got) = 1
                /\ got[1].severity = "info"
                /\ got[1].title = "Optimal Sleep Pattern"
            /\ (2 * short <= n /\ 2 * Sum(v) < 15 * n) => got = <<>>

C9_Witness ==
    /\ pc = "returned"
    /\ ValuesOfType("sleep_duration") = TenNights
    /\ insights = <<Insight("Consistent Sleep Deficit", <<6, 10>>, "attention")>>

\* the deficit has priority over a mean of 7.5, and exactly half is no deficit
C9_WitnessPriority ==
    /\ pc = "returned"
    /\ ValuesOfType("sleep_duration") = <<6, 6, 6, 12>>
    /\ Titled(insights, SleepTitles) =
           <<Insight("Consistent Sleep Deficit", <<3, 4>>, "attention")>>

\* C10: with empty or absent context logs the analyzer returns normally and
\* its result holds neither the stress-tag nor the workout-tag insight,
\* whatever the metrics.
C10_NoContextNoTagInsight ==
    (pc = "returned" /\ NoContext) =>
        /\ insights # TypeError
        /\ Titled(insights, {StressTitle, WorkoutTitle}) = <<>>

C10_Witness ==
    /\ pc = "returned"
    /\ contextLogs = Null
    /\ \E i \in 1..Len(quick_actions_log) :
           /\ quick_actions_log[i].user_id = "u1"
           /\ quick_actions_log[i].action_type = "context_log"
           /\ "stressed" \in quick_actions_log[i].data.tags
    /\ ValuesOfType("hrv") = <<70, 30, 30, 30>>
    /\ insights # <<>>


\* the context logs passed to the analyzer, none when the read gave null
Logs == IF contextLogs = Null THEN <<>> ELSE RowsOf(contextLogs)

\* calendar dates of the logs carrying one of the tags
DatesTagged(tags) ==
    {DateOf(Logs[i].created_at) : i \in {j \in 1..Len(Logs) : Logs[j].data.tags \cap tags # {}}}

\* the metric rows of type t passed to the analyzer whose date, moved back by
\* `back` days, is in the set of days
RowsOn(t, days, back) ==
    SelectSeq(RowsOf(healthMetrics),
              LAMBDA m : m.metric_type = t
                         /\ (m.recorded_at \div 24) - back \in days)

ValuesOf(rows) == [i \in 1..Len(rows) |-> rows[i].value]

C11_WitnessThreshold ==
    /\ pc = "returned"
    /\ ValuesOfType("hrv") = <<27, 33>>
    /\ DatesTagged({"stressed"}) = {FirstDay}
    /\ Titled(insights, {StressTitle}) = <<>>

\* C12: the analyzer emits the 'info' insight "Exercise Improves Sleep
\* Quality" exactly when there is a log tagged 'workout' or 'cardio', at least
\* one sleep_duration sample is dated one calendar day after such a log (a
\* sample of the workout day itself does not count), and the mean of those
\* samples is strictly above the mean of all sleep samples; the minutes it
\* cites are round((subset mean - overall mean) * 60).
C12_WorkoutInsight ==
    pc = "returned" =>
        LET all == ValuesOfType("sleep_duration")
            sub == ValuesOf(RowsOn("sleep_duration",
                                   DatesTagged({"workout", "cardio"}), 1))
            k == Len(sub)
            n == Len(all)
            due == /\ Len(Logs) > 0
                   /\ DatesTagged({"workout", "cardio"}) # {}
                   /\ k > 0
                   /\ Sum(sub) * n > Sum(all) * k
            got == Titled(insights, {WorkoutTitle})
        IN  /\ due <=> Len(got) = 1
            /\ ~due <=> got = <<>>
            /\ \A i \in 1..Len(got) :
                /\ got[i].severity = "info"
                /\ got[i].description =
                     <<(120 * (Sum(sub) * n - Sum(all) * k) + k * n) \div (2 * k * n)>>

\* 7 h on the workout day, 8 h the night after: 30 minutes above the mean 7.5
C12_Witness ==
    /\ pc = "returned"
    /\ ValuesOfType("sleep_duration") = <<7, 8>>
    /\ DatesTagged({"workout", "cardio"}) = {FirstDay}
    /\ Titled(insights, {WorkoutTitle}) =
         <<Insight(WorkoutTitle, <<30>>, "info")>>

\* the long night is the workout day's own and the night after is short
C12_WitnessSameDay ==
    /\ pc = "returned"
    /\ ValuesOfType("sleep_duration") = <<8, 6>>
    /\ DatesTagged({"workout", "cardio"}) = {FirstDay}
    /\ Titled(insights, {WorkoutTitle}) = <<>>

Means == MeansComputed(RowsOf(healthMetrics), contextLogs)

PerTypeRules == {"heart_rate", "hrv", "sleep_duration"}

\* the samples a tag rule takes its subset mean over
SubsetOf(rule) ==
    IF rule = "stress"
    THEN RowsOn("hrv", DatesTagged({"stressed"}), 0)
    ELSE RowsOn("sleep_duration", DatesTagged({"workout", "cardio"}), 1)

\* C13 as stated: no mean over an empty group, every whole-group and last-3
\* mean of a metric type computed only when the type has more than 3 samples,
\* every subset mean only when the subset is non-empty.
C13_GroupMeansNeedMoreThanThree ==
    pc = "returned" =>
        \A i \in 1..Len(Means) :
            /\ Means[i].size > 0
            /\ Means[i].part \in {"group", "last3"} =>
                 Len(ValuesOfType(Means[i].type)) > 3
            /\ Means[i].part = "subset" => Len(SubsetOf(Means[i].rule)) > 0

\* C13: the analyzer never computes a mean over an empty group: the means of
\* a per-type rule (whole group and last 3) are computed only when the type
\* has more than 3 samples, and the means of a tag rule (the date-filtered
\* subset and the whole group it is compared with) only when the subset, and
\* with it the group, is non-empty; the whole group of a tag rule may have 3
\* samples or fewer.
C13_NoMeanOverEmptyGroup ==
    pc = "returned" =>
        \A i \in 1..Len(Means) :
            /\ Means[i].size > 0
            /\ Means[i].rule \in PerTypeRules =>
                 Len(ValuesOfType(Means[i].type)) > 3
            /\ Means[i].rule \notin PerTypeRules =>
                 /\ Len(SubsetOf(Means[i].rule)) > 0
                 /\ Len(ValuesOfType(Means[i].type)) > 0

\* a stressed day and an hrv sample that is not of that day: no mean at all
C13_Witness ==
    /\ pc = "returned"
    /\ ValuesOfType("hrv") = <<27>>
    /\ DatesTagged({"stressed"}) = {FirstDay + 1}
    /\ Means = <<>>
    /\ insights = <<>>

\* two hrv samples, one of a stressed day: both means of the stress rule
C13_WitnessSmallGroup ==
    /\ pc = "returned"
    /\ ValuesOfType("hrv") = <<27, 70>>
    /\ DatesTagged({"stressed"}) = {FirstDay}
    /\ Means = <<Averaged("stress", "hrv", "subset", <<27>>),
                 Averaged("stress", "hrv", "group", <<27, 70>>)>>

\* what the analyzer can reach: its two arguments and the three tables
AnalyzerSurroundings ==
    <<healthMetrics, contextLogs, health_metrics, quick_actions_log,
      health_events, inserts>>

\* C15: the step in which the handler calls analyzeHealthPatterns leaves the
\* metrics and the context logs passed to it, the three tables and the record
\* of inserts unchanged, and every insert happens after the analyzer has
\* returned: while the analyzer has not been called nothing has been inserted.
C15_AnalyzerHasNoSideEffects ==
    /\ [][analyzerCalls' # analyzerCalls => UNCHANGED AnalyzerSurroundings]_vars
    /\ [](analyzerCalls = 0 => inserts = <<>> /\ health_events = <<>>)
    /\ [](pc = "insert" => analyzerCalls = 1 /\ inserts = <<>> /\ health_events = <<>>)

\* the analyzer has returned insights, the arguments are still the rows read
\* from storage and nothing has been written yet
C15_Witness ==
    /\ pc = "insert"
    /\ analyzerCalls = 1
    /\ Len(insights) > 0
    /\ healthMetrics = Array(QueryHealthMetrics(health_metrics, userId))
    /\ Len(RowsOf(healthMetrics)) >= 5
    /\ contextLogs = Array(QueryContextLogs(quick_actions_log, userId))
    /\ Len(RowsOf(contextLogs)) > 0
    /\ health_events = <<>>

\* the two rows a run for u1 inserts on the stored data of RunsInputs
TwoRows ==
    <<[user_id |-> "u1", event_type |-> "insight",
       title |-> "Elevated Heart Rate Pattern", description |-> <<17>>,
       severity |-> "warning"],
      [user_id |-> "u1", event_type |-> "insight",
       title |-> "Consistent Sleep Deficit", description |-> <<3, 4>>,
       severity |-> "attention"]>>

\* k times the two rows, one copy behind the other
Copies(k) == [i \in 1..(2 * k) |-> TwoRows[((i - 1) % 2) + 1]]

\* C16: health_events only grows, and only by the insert of a run: a
\* successful insert appends one row per insight of the run behind the rows
\* already stored, whether or not equal rows are stored already; a failed
\* insert and every other step leave the table as it is; so the table never
\* holds fewer rows than before, and while every run submitted the same two
\* rows the table is k copies of them, k the number of successful inserts.
C16_AppendOnlyNoDedup ==
    /\ [][IF pc = "insert" /\ pc' = "respond" /\ ~insertError'
          THEN /\ Len(insights) > 0
               /\ Len(health_events') = Len(health_events) + Len(insights)
               /\ SubSeq(health_events', 1, Len(health_events)) = health_events
               /\ \A i \in 1..Len(insights) :
                    LET row == health_events'[Len(health_events) + i]
                    IN  /\ row.user_id = userId
                        /\ row.title = insights[i].title
                        /\ row.description = insights[i].description
                        /\ row.severity = insights[i].severity
          ELSE health_events' = health_events]_vars
    /\ []((\A i \in 1..Len(inserts) : inserts[i] = TwoRows)
            => \E k \in 0..Len(inserts) : health_events = Copies(k))

\* two successful runs for u1 on unchanged data: twice the same two rows
C16_Witness ==
    /\ pc = "done"
    /\ analyzerCalls = 2
    /\ health_events = TwoRows \o TwoRows
    /\ response.count = 2

\* the last 3 of the values are within the band around the mean of all, as
\* hundredths: lo * avg <= recent <= hi * avg
WithinBand(v, lo, hi) ==
    LET n == Len(v)
        s3 == v[n] + v[n - 1] + v[n - 2]
    IN  /\ 100 * n * s3 >= 3 * lo * Sum(v)
        /\ 100 * n * s3 <= 3 * hi * Sum(v)

\* no per-type rule is triggered by the metrics passed to the analyzer
NoDeviation ==
    /\ Len(ValuesOfType("heart_rate")) > 3 =>
         WithinBand(ValuesOfType("heart_rate"), 90, 110)
    /\ Len(ValuesOfType("hrv")) > 3 => WithinBand(ValuesOfType("hrv"), 85, 115)
    /\ Len(ValuesOfType("sleep_duration")) > 3 =>
         LET v == ValuesOfType("sleep_duration")
         IN  2 * ShortNights(v) <= Len(v) /\ 2 * Sum(v) < 15 * Len(v)

\* C17: a request with at least 5 fetched metrics, no deviation beyond a
\* threshold and no context logs gets an empty sequence from the analyzer,
\* which does not raise; the handler submits no insert, stores no row and
\* answers 200 with the empty list and 'Generated 0 new insights'.
C17_NoRuleTriggered ==
    (Handled /\ ~FewerThanFive /\ NoContext /\ NoDeviation) =>
        /\ pc # "insert"
        /\ inserts = <<>>
        /\ health_events = <<>>
        /\ insights = <<>>
        /\ pc \in {"respond", "done"} => analyzerCalls = 1
        /\ pc = "done" => response = Response(200, "generated", <<>>, 0)

\* four steady heart-rate samples and two hrv samples, no context log
C17_Witness ==
    /\ pc = "done"
    /\ ~FewerThanFive
    /\ ValuesOfType("heart_rate") = <<70, 70, 70, 70>>
    /\ ValuesOfType("hrv") = <<30, 70>>
    /\ ValuesOfType("sleep_duration") = <<>>
    /\ contextLogs = Array(<<>>)
    /\ analyzerCalls = 1
    /\ response.status = 200
    /\ response.count = 0

SupportedTypes == {"heart_rate", "hrv", "sleep_duration"}

PerTypeTitles == HeartRateTitles \cup HrvTitles \cup SleepTitles

\* the rows passed to the analyzer without those of unsupported metric types
SupportedRows ==
    SelectSeq(RowsOf(healthMetrics), LAMBDA m : m.metric_type \in SupportedTypes)

\* C18: a metric type with 3 samples or fewer gets no per-type insight,
\* whatever its values; rows of other metric types cause no insight: with no
\* supported type above 3 samples there is no per-type insight at all, and
\* the result is the one the analyzer gives without those rows.
C18_RuleNeedsMoreThanThree ==
    pc = "returned" =>
        /\ Len(ValuesOfType("heart_rate")) <= 3 =>
             Titled(insights, HeartRateTitles) = <<>>
        /\ Len(ValuesOfType("hrv")) <= 3 => Titled(insights, HrvTitles) = <<>>
        /\ Len(ValuesOfType("sleep_duration")) <= 3 =>
             Titled(insights, SleepTitles) = <<>>
        /\ (\A t \in SupportedTypes : Len(ValuesOfType(t)) <= 3) =>
             /\ Titled(insights, PerTypeTitles) = <<>>
             /\ NoContext => insights = <<>>
        /\ insights = analyzeHealthPatterns(SupportedRows, contextLogs)

\* three short nights: no sleep insight
C18_Witness ==
    /\ pc = "returned"
    /\ ValuesOfType("sleep_duration") = <<6, 6, 6>>
    /\ insights = <<>>

\* six rising samples of stress_level and steps next to three heart-rate
\* samples: no insight
C18_WitnessOtherTypes ==
    /\ pc = "returned"
    /\ Len(RowsOf(healthMetrics)) = 9
    /\ Len(SupportedRows) = 3
    /\ ValuesOfType("stress_level") = <<10, 90, 250>>
    /\ ValuesOfType("steps") = <<40, 160, 360>>
    /\ insights = <<>>

\* the rows of a table that belong to user u
OwnRows(table, u) == SelectSeq(table, LAMBDA row : row.user_id = u)

\* what the request's two reads give when the tables hold the rows of the
\* requesting user only
OwnMetrics ==
    OrderBy(SelectSeq(OwnRows(health_metrics, userId),
                      LAMBDA m : m.recorded_at >= fourteenDaysAgo),
            "recorded_at")
OwnLogs ==
    IF "quick_actions_log" \in readErrors
    THEN Null
    ELSE Array(OrderBy(SelectSeq(OwnRows(quick_actions_log, userId),
                                 LAMBDA log : /\ log.action_type = "context_log"
                                              /\ log.created_at >= fourteenDaysAgo),
                       "created_at"))

\* the rows of u2 are the same in every stored data set
U2Insights == <<Insight("Elevated Heart Rate Pattern", <<44>>, "warning")>>

\* C19: a request for user U that read its metrics answers as it would on
\* tables holding U's rows only: 'insufficient data' exactly when U has fewer
\* than 5 own samples in the window, else the insights of the analyzer on U's
\* own samples and own context logs; every submitted and every stored row has
\* user_id U; u2, whose rows never change, gets the same answer whatever u1
\* has stored.
C19_TenantIsolation ==
    (pc = "done" /\ userId \in Users /\ "health_metrics" \notin readErrors) =>
        /\ response.message = "insufficient" <=> Len(OwnMetrics) < 5
        /\ Len(OwnMetrics) >= 5 =>
             /\ insights = analyzeHealthPatterns(OwnMetrics, OwnLogs)
             /\ response.insights = insights
        /\ \A b \in 1..Len(inserts) : \A i \in 1..Len(inserts[b]) :
             inserts[b][i].user_id = userId
        /\ \A i \in 1..Len(health_events) : health_events[i].user_id = userId
        /\ userId = "u2" => response = Response(200, "generated", U2Insights, 1)

\* u1 has no sample of its own while u2 has five: u1 is told 'insufficient'
C19_Witness ==
    /\ pc = "done"
    /\ userId = "u1"
    /\ readErrors = {}
    /\ OwnRows(health_metrics, "u1") =
         <<[user_id |-> "u1", metric_type |-> "hrv", value |-> 70,
            recorded_at |-> fourteenDaysAgo - 1]>>
    /\ Len(OwnRows(health_metrics, "u2")) = 5
    /\ response = Response(200, "insufficient", <<>>, 0)

\* u1 has rows that trigger three rules, u2 still gets its one insight
C19_WitnessOtherUser ==
    /\ pc = "done"
    /\ userId = "u2"
    /\ readErrors = {}
    /\ Len(OwnRows(health_metrics, "u1")) = 13
    /\ Len(OwnRows(quick_actions_log, "u1")) = 2
    /\ health_events = InsightEventsOf(U2Insights, "u2")

\* the rules of the aura-chat responder in source order, each with its keywords
RuleOrder ==
    <<[rule |-> "greeting", keywords |-> {"hello", "hi", "hey"}],
      [rule |-> "heart rate", keywords |-> {"heart rate", "hr", "pulse"}],
      [rule |-> "hrv", keywords |-> {"hrv", "heart rate variability", "recovery"}],
      [rule |-> "sleep", keywords |-> {"sleep", "rest", "insomnia", "tired"}],
      [rule |-> "stress", keywords |-> {"stress", "anxiety", "mental health", "mood"}],
      [rule |-> "exercise",
       keywords |-> {"exercise", "workout", "fitness", "cardio", "strength"}],
      [rule |-> "nutrition",
       keywords |-> {"nutrition", "diet", "food", "eating", "weight"}],
      [rule |-> "hydration", keywords |-> {"water", "hydration", "dehydrated"}],
      [rule |-> "pain", keywords |-> {"pain", "hurt", "injury", "sore"}],
      [rule |-> "supplements",
       keywords |-> {"supplement", "vitamin", "medication", "medicine"}],
      [rule |-> "women's health",
       keywords |-> {"period", "menstrual", "pregnancy", "hormones"}],
      [rule |-> "men's health",
       keywords |-> {"testosterone", "prostate", "male health"}],
      [rule |-> "aging", keywords |-> {"aging", "longevity", "elderly", "old"}],
      [rule |-> "insights", keywords |-> {"insight", "pattern", "analysis", "trend"}],
      [rule |-> "device", keywords |-> {"connect", "device", "sync", "bluetooth"}],
      [rule |-> "emergency",
       keywords |-> {"emergency", "chest pain", "can't breathe", "urgent"}]>>

\* the rules of the older responder in source order
LocalRuleOrder ==
    <<[rule |-> "greeting", keywords |-> {"hello", "hi", "hey"}],
      [rule |-> "heart rate", keywords |-> {"heart rate", "hr"}],
      [rule |-> "hrv", keywords |-> {"hrv", "heart rate variability", "recovery"}],
      [rule |-> "sleep", keywords |-> {"sleep", "rest"}],
      [rule |-> "stress", keywords |-> {"stress", "stressed"}],
      [rule |-> "insights", keywords |-> {"insight", "pattern", "analysis"}],
      [rule |-> "device", keywords |-> {"connect", "device", "sync"}],
      [rule |-> "wellness", keywords |-> {"health", "wellness", "improve"}]>>

\* the rules of the order that have a keyword in the lower-cased text
Matching(order, lower) ==
    {i \in 1..Len(order) : \E k \in order[i].keywords : Includes(lower, k)}

\* the first of them, 'default' when there is none
FirstMatch(order, lower) ==
    LET hits == Matching(order, lower)
    IN  IF hits = {} THEN "default"
        ELSE order[CHOOSE i \in hits : \A j \in hits : i <= j].rule

Greets(lower) == \E k \in {"hello", "hi", "hey"} : Includes(lower, k)

\* the reply is non-empty and is that of the first matching rule of the order
FirstMatchReply(order) ==
    LET lower == toLowerCase(message)
    IN  /\ aiResponse # NoReply
        /\ aiResponse.rule # "" /\ aiResponse.variant # ""
        /\ aiResponse.rule = FirstMatch(order, lower)
        /\ Greets(lower) => aiResponse.rule = "greeting"

\* C20: for every message and health summary generateFreeAIResponse returns
\* one non-empty reply, that of the first rule in source order with a keyword
\* in the lower-cased message and the default reply when no rule has one; a
\* message containing 'hello', 'hi' or 'hey' gets the greeting reply whatever
\* other keywords it contains. The same holds of the older responder.
C20_FirstMatchWins ==
    /\ pc = "replied" => FirstMatchReply(RuleOrder)
    /\ pc = "repliedLocal" => FirstMatchReply(LocalRuleOrder)

\* 'this' contains 'hi': the greeting wins over the emergency keyword
C20_Witness ==
    /\ pc = "replied"
    /\ message = "this urgent"
    /\ Matching(RuleOrder, toLowerCase(message)) = {1, 16}
    /\ aiResponse = Reply("greeting", "connect your device", <<>>)

\* no greeting keyword: the heart-rate rule ('hr' in 'three') wins over sleep
C20_WitnessOrder ==
    /\ pc = "replied"
    /\ message = "tired three"
    /\ Matching(RuleOrder, toLowerCase(message)) = {2, 4}
    /\ aiResponse.rule = "heart rate"

\* no keyword at all: the default reply
C20_WitnessDefault ==
    /\ pc = "replied"
    /\ message = "thanks"
    /\ Matching(RuleOrder, toLowerCase(message)) = {}
    /\ aiResponse.rule = "default"

EmergencyKeywords == {"emergency", "chest pain", "can't breathe", "urgent"}

\* C21: every message containing an emergency keyword is answered by the
\* aura-chat responder with the emergency reply, the one that tells the user
\* to call emergency services.
C21_EmergencyReply ==
    (pc = "replied"
     /\ \E k \in EmergencyKeywords : Includes(toLowerCase(message), k)) =>
        aiResponse = Reply("emergency", "call emergency services", <<>>)

\* C22: every aura-chat request for which a reply was produced submits exactly
\* one batch of two ai_conversations rows (the user's message with message_type
\* 'user', then the reply with message_type 'assistant' and the user's message
\* as its response), and is answered with status 200 and that reply whether
\* or not the insert failed.
C22_TwoRowsAndInsertErrorIgnored ==
    (pc = "chatDone" /\ aiResponse # NoReply) =>
        /\ Len(conversationData) = 1
        /\ Len(conversationData[1]) = 2
        /\ conversationData[1][1] =
             [user_id |-> chatUserId, message |-> message, response |-> "",
              message_type |-> "user"]
        /\ conversationData[1][2] =
             [user_id |-> chatUserId, message |-> aiResponse,
              response |-> message, message_type |-> "assistant"]
        /\ ai_conversations = IF dbError THEN <<>> ELSE conversationData[1]
        /\ chatResponse.status = 200
        /\ chatResponse.response = aiResponse

C22_Witness ==
    /\ pc = "chatDone"
    /\ aiResponse # NoReply
    /\ dbError
    /\ chatResponse.status = 200
    /\ chatResponse.healthDataIncluded

C22_WitnessStored ==
    /\ pc = "chatDone"
    /\ ~dbError
    /\ Len(ai_conversations) = 2
    /\ aiResponse.rule = "pain"

\* C23: a connectDevice call that registered its device and met no storage
\* error (the user's first device, with no Bluetooth device connected,
\* included) has run the initial sync and inserted one batch of health metrics.
C23_ConnectTriggersSync ==
    \A i \in 1..Len(deviceCalls) :
        LET c == deviceCalls[i]
        IN  (c.op = "connect" /\ c.pc = "done" /\ c.registered /\ ~c.storageError)
                => c.inserted = 1

\* C24: device_connections never holds two rows of one device_type for the
\* user, whatever connectDevice and disconnectDevice calls were made,
\* overlapping ones and ones after a failed device fetch included.
C24_OneRowPerDeviceType ==
    \A i, j \in 1..Len(device_connections) :
        (/\ device_connections[i].user_id = "u1"
         /\ device_connections[j].user_id = "u1"
         /\ device_connections[i].device_type = device_connections[j].device_type)
            => i = j

\* C25: a finished call of the card shows the success toast only if the hook's
\* operation completed without error, and shows the failure toast whenever a
\* storage operation of the call failed.
C25_ToastTellsOutcome ==
    \A i \in 1..Len(deviceCalls) :
        LET c == deviceCalls[i]
        IN  c.pc = "done" =>
                /\ c.toast = Toast(c.op, FALSE) => ~c.caught
                /\ c.storageError => c.toast = Toast(c.op, TRUE)

Pending(i) == i \in 1..Len(sends) /\ sends[i].pc \in {"auth", "invoke", "response"}

Accepted(i) == i \in 1..Len(sends) /\ sends[i].pc # "rejected"

Answered(i) ==
    i \in 1..Len(sends) /\ sends[i].pc = "done" /\ sends[i].replies = 1

\* C26: at most one chat request is in flight; a send is accepted only with
\* isTyping false and a non-blank input; every accepted send eventually ends
\* with isTyping false again and exactly one assistant-side message appended,
\* whether the invocation succeeded or failed.
C26_OneRequestOneReply ==
    /\ [](\A i, j \in 1..Len(sends) : (Pending(i) /\ Pending(j)) => i = j)
    /\ [](isTyping <=> \E i \in 1..Len(sends) : Pending(i))
    /\ [][(Len(sends') > Len(sends) /\ sends'[Len(sends')].pc # "rejected")
            => (~isTyping /\ inputValue \notin {"", " "} /\ isTyping')]_vars
    /\ [](\A i \in 1..Len(sends) :
            /\ sends[i].pc = "done" => sends[i].replies = 1
            /\ sends[i].pc # "done" => sends[i].replies = 0)
    /\ \A i \in 1..MaxSends :
            Pending(i) ~> (Answered(i) /\ ~isTyping)

C26_Witness ==
    /\ Len(sends) = 2
    /\ sends[1].pc = "rejected"
    /\ sends[2].pc = "done"
    /\ sends[2].result = "error"
    /\ ~isTyping
    /\ \E k \in 1..Len(messages) : messages[k].content = ConnectionError

C26_WitnessReply ==
    /\ Len(sends) = 2
    /\ sends[1].pc = "done"
    /\ sends[1].result = "stored"
    /\ sends[2].pc = "response"
    /\ isTyping

\* C27: every message accepted by handleSendMessage is still in the displayed
\* list, whatever the order in which the history load and the send complete.
C27_SentMessageStays ==
    \A i \in 1..Len(sends) :
        Accepted(i) =>
            \E k \in 1..Len(messages) :
                messages[k].isUser /\ messages[k].content = sends[i].content

BrandType(lower) ==
    IF Includes(lower, "galaxy") \/ Includes(lower, "samsung") THEN "samsung_watch"
    ELSE IF Includes(lower, "huawei") THEN "huawei_watch"
    ELSE IF Includes(lower, "apple") THEN "apple_watch"
    ELSE IF Includes(lower, "fitbit") THEN "fitbit"
    ELSE IF Includes(lower, "garmin") THEN "garmin"
    ELSE IF Includes(lower, "polar") THEN "polar"
    ELSE IF Includes(lower, "amazfit") THEN "amazfit"
    ELSE "wearable_device"

\* C28: every scanned device has the type of the brand keyword its name
\* contains: samsung_watch for 'galaxy' or 'samsung', huawei_watch for
\* 'huawei', apple_watch only for Apple watches, wearable_device when the
\* name holds no known keyword.
C28_TypeOfBrandKeyword ==
    \A k \in 1..Len(bluetooth.devices) :
        LET d == bluetooth.devices[k]
        IN  d.type = BrandType(toLowerCase(d.id))

\* a handleSave call that was in flight has ended with the given toast
Ended(i, result) ==
    /\ i \in 1..Len(saves)
    /\ saves[i].pc # "done"
    /\ saves'[i].pc = "done"
    /\ saves'[i].result = result

\* C29: handleSave with nothing selected writes nothing; a successful insert
\* of a non-empty selection clears the selection and closes the logger; a
\* failed insert or an unauthenticated user leaves the selected tags and the
\* open logger as they were; toggling a tag twice restores the selection.
C29_SaveOutcomes ==
    /\ [][(Len(saves') > Len(saves) /\ selectedTags = {})
            => (/\ saves'[Len(saves')].pc = "done"
                /\ loggerInserts' = loggerInserts
                /\ UNCHANGED <<selectedTags, loggerOpen>>)]_vars
    /\ [][\A i \in 1..Len(saves) :
            Ended(i, "Context logged successfully")
                => (/\ saves[i].tags # {}
                    /\ selectedTags' = {}
                    /\ ~loggerOpen'
                    /\ Len(loggerInserts') = Len(loggerInserts) + 1
                    /\ loggerInserts'[Len(loggerInserts')].data.tags = saves[i].tags)]_vars
    /\ [][\A i \in 1..Len(saves) :
            Ended(i, "Failed to save context")
                => (/\ selectedTags' = selectedTags
                    /\ loggerOpen' = loggerOpen
                    /\ loggerInserts' = loggerInserts)]_vars
    /\ [](\A i \in 1..Len(saves) :
            saves[i].pc = "done" =>
                saves[i].result \in {"nothing selected", "Context logged successfully",
                                     "Failed to save context"})
    /\ [](\A tagId \in ContextTags :
            Toggled(Toggled(selectedTags, tagId), tagId) = selectedTags)

C29_Witness ==
    /\ Len(saves) = 2
    /\ saves[1].pc = "done"
    /\ saves[1].result = "Failed to save context"
    /\ saves[1].tags = {"stressed", "workout"}
    /\ selectedTags = {"stressed", "workout"}
    /\ loggerOpen
    /\ saves[2].pc = "insert"

C29_WitnessSaved ==
    /\ Len(saves) = 2
    /\ saves[1].result = "nothing selected"
    /\ saves[2].result = "Context logged successfully"
    /\ selectedTags = {}
    /\ ~loggerOpen
    /\ Len(loggerInserts) = 1

\* the value of the user's newest stored sample of a type, 0 if there is none
LatestStored(t) ==
    LET own == {k \in 1..Len(health_metrics) :
                    /\ health_metrics[k].user_id = "u1"
                    /\ health_metrics[k].metric_type = t}
    IN  IF own = {} THEN 0
        ELSE health_metrics[CHOOSE k \in own : \A j \in own : j <= k].value

AllFetched ==
    \A i \in 1..Len(fetches) : fetches[i].pc = "done" /\ fetches[i].result # Null

\* C30: once every fetch has been answered without error, the displayed heart
\* rate and stress level are those of the user's latest stored samples,
\* whatever the order in which the responses of overlapping fetches arrived.
C30_DisplaysLatestSamples ==
    AllFetched =>
        /\ healthData.heartRate = LatestStored("heart_rate")
        /\ healthData.stressLevel =
             (IF LatestStored("stress_level") = 0 THEN "Unknown"
              ELSE IF LatestStored("stress_level") < 30 THEN "Low"
              ELSE IF LatestStored("stress_level") < 70 THEN "Medium" ELSE "High")
=============================================================================
